---- MODULE Spec2Model ----
(***************************************************************************)
(* Data acquisition and graph-assembly pipeline of the AI startup          *)
(* relationship graph: TTL cache, source-priority fallback chain           *)
(* (cache -> GitHub -> Crunchbase -> seed), per-source fetch/map code,     *)
(* schema validation, graph assembly and the per-source rate limiter.      *)
(*                                                                         *)
(* Time in the orchestrator is counted in days (the default cache TTL of   *)
(* 86400000 ms is one day); dates of source records are day numbers since  *)
(* 1970-01-01, an unparseable date is NaN.  The rate limiter has its own   *)
(* millisecond clock.                                                      *)
(***************************************************************************)
EXTENDS Integers, Sequences, FiniteSets, TLC

VARIABLES
    cfg,        \* config: enabled / fallbackToSeed flags of the two sources
    seedFile,   \* content of data/seed.json
    cache,      \* DataCache.cache restricted to the key 'graph-data'
    now,        \* Date.now() of the orchestrator, in days
    inflight,   \* per run: the source fetches awaiting their responses
    running,    \* per run: loadAndParseGraphData has been called and not returned
    trace,      \* per run: the steps entered so far, each with its outcome
    result,     \* per run: what the last call returned to its caller
    lastStep,   \* per run: record of the last network step that completed
    parsed,     \* per run: the datasets handed to parseGraphData so far
    stats,      \* the body of the last response of GET /api/graph/stats
    call,       \* per run: the route that started it, whether 'graph-data' was
                \* cached and unexpired then, and the entries it has written
    fin,        \* pure-function check: the input drawn
    fout,       \* pure-function check: the value computed from it
    clock,      \* Date.now() of the rate limiter, in ms
    lastRequestTime, \* RateLimiter.lastRequestTime
    rl,         \* per caller of wait(): position and timer
    rets,       \* the times of the last two returns from wait()
    rq,         \* retryRequest: one request of a source client
    store,      \* DataCache.cache with several keys
    stime,      \* Date.now() of that cache
    probe       \* that cache's last operation, and per key the last set and
                \* whether an invalidate or clear followed it

vars == <<cfg, seedFile, cache, now, inflight, running, trace, result, lastStep,
          parsed, stats, call, fin, fout, clock, lastRequestTime, rl, rets, rq, store,
          stime, probe>>

orchVars == <<cfg, seedFile, cache, now, inflight, running, trace, result, lastStep,
              parsed, stats, call>>
apiVars == <<stats, call>>
fetchVars == <<fin, fout>>
limVars == <<clock, lastRequestTime, rl, rets>>
retryVars == <<rq>>
storeVars == <<store, stime, probe>>

\* ------------------------------------------------------------------ bounds
MaxDays == 3         \* days the orchestrator clock may advance
MaxClock == 6        \* ms the rate limiter clock may advance
MaxBudget == 3       \* largest retry budget (maxRetries) drawn
MaxAge == 4          \* ms the clock of the several-key cache may advance
MaxEntities == 2     \* longest list of startups, and of people, assembled
MaxEdges == 2        \* longest list of edges assembled
MaxLinks == 3        \* longest list of edges of a graph that is filtered
MaxTerm == 2         \* longest search term drawn
MaxDefects == 2      \* most places of a value that are replaced

\* --------------------------------------------------------------- JS values
\* NaN: the year / time of an unparseable date (new Date('x').getFullYear()).
NaN == -1
\* undefined: an absent optional number (Edge.sinceYear).
Undefined == -2

EpochYear == 1970
DaysPerYear == 365
\* The model starts on this day (2026).
StartDay == 20500

\* new Date(d).getFullYear()
getFullYear(d) == IF d = NaN THEN NaN ELSE EpochYear + (d \div DaysPerYear)

\* Comparisons with a NaN operand are false in JS.
Lt(a, b) == a # NaN /\ b # NaN /\ a < b
Ge(a, b) == a # NaN /\ b # NaN /\ a >= b
Gt(a, b) == a # NaN /\ b # NaN /\ a > b
Minus(a, b) == IF a = NaN \/ b = NaN THEN NaN ELSE a - b

\* ------------------------------------------------------------ sequences
RECURSIVE SeqFilter(_, _)
SeqFilter(s, keep) ==
    IF s = <<>> THEN <<>>
    ELSE IF Head(s) \in keep THEN <<Head(s)>> \o SeqFilter(Tail(s), keep)
         ELSE SeqFilter(Tail(s), keep)

Range(s) == {s[i] : i \in DOMAIN s}

Slice(s, n) == IF Len(s) <= n THEN s ELSE SubSeq(s, 1, n)

RECURSIVE SumStars(_)
SumStars(repos) ==
    IF repos = <<>> THEN 0 ELSE Head(repos).stargazers_count + SumStars(Tail(repos))

\* ------------------------------------------------------------ types.ts
CompanyStages == {"idea", "seed", "series-a", "series-b", "series-c", "series-d",
                  "growth", "ipo", "acquired"}
EdgeTypes == {"co-founded", "works-at", "invests-in"}

EmptyData == [startups |-> <<>>, people |-> <<>>, edges |-> <<>>]

\* ------------------------------------------------------------ validateData
YearOK(y) == y # NaN /\ y >= 1900 /\ y <= 2100

StartupErrors(d) ==
    {<<"startups", i, "stage">> : i \in {j \in DOMAIN d.startups :
                                     d.startups[j].stage \notin CompanyStages}}
    \cup
    {<<"startups", i, "foundedYear">> : i \in {j \in DOMAIN d.startups :
                                     ~YearOK(d.startups[j].foundedYear)}}

EdgeErrors(d) ==
    {<<"edges", i, "type">> : i \in {j \in DOMAIN d.edges :
                                     d.edges[j].type \notin EdgeTypes}}
    \cup
    {<<"edges", i, "sinceYear">> : i \in {j \in DOMAIN d.edges :
                                     /\ d.edges[j].sinceYear # Undefined
                                     /\ ~YearOK(d.edges[j].sinceYear)}}

\* SeedDataSchema.parse: every violation is collected; the parsed value is
\* returned when there is none, an Error is thrown otherwise.
validateData(d) ==
    LET errs == StartupErrors(d) \cup EdgeErrors(d)
    IN  [ok |-> errs = {}, data |-> IF errs = {} THEN d ELSE EmptyData, errors |-> errs]

\* ------------------------------------------------------------ parseGraphData
StartupNode(s) == [id |-> s.id, type |-> "startup", data |-> s]
PersonNode(p) == [id |-> p.id, type |-> "person", data |-> p]

\* GraphEdgeOf with the counter incremented before it is used.
GraphEdgeOfPreIncrement(e, n) ==
    [id |-> <<"edge", n + 1>>, source |-> e.sourceId, target |-> e.targetId, type |-> e.type,
     label |-> IF e.type = "co-founded" THEN "Co-founded" ELSE "",
     sinceYear |-> e.sinceYear]

GraphEdgeOf(e, n) ==
    [id |-> <<"edge", n>>, source |-> e.sourceId, target |-> e.targetId, type |-> e.type,
     label |-> IF e.type = "co-founded" THEN "Co-founded" ELSE "",
     sinceYear |-> e.sinceYear]

AllIds(d) == [i \in 1..(Len(d.startups) + Len(d.people)) |->
                 IF i <= Len(d.startups) THEN d.startups[i].id
                 ELSE d.people[i - Len(d.startups)].id]

\* The first position whose id was already inserted, 0 when there is none.
FirstDuplicate(ids) ==
    LET dup == {i \in DOMAIN ids : \E j \in 1..(i - 1) : ids[j] = ids[i]}
    IN  IF dup = {} THEN 0 ELSE CHOOSE i \in dup : \A k \in dup : i <= k

\* FirstDangling reporting the last edge with an unknown endpoint.
LastDangling(d, idset) ==
    LET bad == {i \in DOMAIN d.edges :
                    d.edges[i].sourceId \notin idset \/ d.edges[i].targetId \notin idset}
    IN  IF bad = {} THEN 0 ELSE CHOOSE i \in bad : \A k \in bad : i >= k

\* The first edge with an unknown endpoint, 0 when there is none.
FirstDangling(d, idset) ==
    LET bad == {i \in DOMAIN d.edges :
                    d.edges[i].sourceId \notin idset \/ d.edges[i].targetId \notin idset}
    IN  IF bad = {} THEN 0 ELSE CHOOSE i \in bad : \A k \in bad : i <= k

NoGraph == [nodes |-> <<>>, edges |-> <<>>]

parseGraphData(d) ==
    LET ids == AllIds(d)
        dup == FirstDuplicate(ids)
        dang == FirstDangling(d, Range(ids))
    IN  IF dup # 0
        THEN [ok |-> FALSE, error |-> <<"Duplicate node ID", ids[dup]>>, graph |-> NoGraph]
        ELSE IF dang # 0
        THEN [ok |-> FALSE,
              error |-> IF d.edges[dang].sourceId \notin Range(ids)
                        THEN <<"Edge references unknown source node", d.edges[dang].sourceId>>
                        ELSE <<"Edge references unknown target node", d.edges[dang].targetId>>,
              graph |-> NoGraph]
        ELSE [ok |-> TRUE, error |-> <<>>,
              graph |-> [nodes |-> [i \in DOMAIN ids |->
                                      IF i <= Len(d.startups)
                                      THEN StartupNode(d.startups[i])
                                      ELSE PersonNode(d.people[i - Len(d.startups)])],
                         edges |-> [i \in DOMAIN d.edges |-> GraphEdgeOf(d.edges[i], i - 1)]]]

\* ------------------------------------------------------------ config.ts
\* config.github.searchQueries, set to two queries (GITHUB_SEARCH_QUERIES).
searchQueries == <<"AI startup", "machine learning">>

\* config.github.cacheTTL and config.crunchbase.cacheTTL, in days.  Both are
\* read from the environment; they are given different values here so that
\* the two settings can be told apart.
GitHubCacheTTL == 2
CrunchbaseCacheTTL == 1

\* ------------------------------------------------------------ github-client.ts
\* A client call after its retries: the response, or the error thrown with
\* the HTTP status of its response.
Ok(items) == [ok |-> TRUE, status |-> 200, items |-> items]
Err(status) == [ok |-> FALSE, status |-> status, items |-> <<>>]

SixMonths == 180     \* 6 * 30 days

inferFundingStage(org, repos, today) ==
    LET totalStars == SumStars(repos)
        repoCount == Len(repos)
        orgAge == Minus(getFullYear(today), getFullYear(org.created_at))
    IN  IF repoCount < 10 /\ totalStars < 100 /\ Lt(orgAge, 2) THEN "seed"
        ELSE IF repoCount < 50 /\ totalStars < 1000 /\ Lt(orgAge, 5) THEN "series-a"
        ELSE IF repoCount >= 50 /\ totalStars >= 1000 /\ Ge(orgAge, 5) THEN "series-b"
        ELSE IF totalStars >= 10000 THEN "growth"
        ELSE "seed"

\* A text is a sequence of tokens; <<>> stands for null, absent and the empty
\* string alike (all falsy).  a || b:
OrElse(a, b) == IF a = <<>> THEN b ELSE a

mapGitHubToStartup(org, repos, today) ==
    [id |-> org.login,
     name |-> OrElse(org.name, <<org.login>>),
     stage |-> inferFundingStage(org, repos, today),
     foundedYear |-> getFullYear(org.created_at),
     location |-> OrElse(org.location, <<"Unknown">>),
     description |-> OrElse(org.description, <<>>)]

mapGitHubToPerson(user) ==
    [id |-> user.login,
     name |-> OrElse(user.name, <<user.login>>),
     bio |-> OrElse(user.bio, <<"GitHub user", user.login>>)]

\* The person built from the contributor when fetchUser fails otherwise than
\* with a 404.
MinimalPerson(contributor) ==
    [id |-> contributor.login,
     name |-> <<contributor.login>>,
     bio |-> <<"GitHub contributor:", contributor.login>>]

mapContributorToEdge(contributor, orgId, repoCreatedAt, today) ==
    LET isFounder == IF contributor.contributions > 50 /\ repoCreatedAt # Undefined
                     THEN Gt(repoCreatedAt, today - SixMonths)
                     ELSE FALSE
    IN  [sourceId |-> contributor.login,
         targetId |-> orgId,
         type |-> IF isFounder THEN "co-founded" ELSE "works-at",
         sinceYear |-> IF repoCreatedAt # Undefined THEN getFullYear(repoCreatedAt)
                       ELSE Undefined]

\* repos.sort((a, b) => b.stargazers_count - a.stargazers_count): stable,
\* most stars first.
RECURSIVE InsertByStars(_, _)
InsertByStars(r, sorted) ==
    IF sorted = <<>> THEN <<r>>
    ELSE IF Head(sorted).stargazers_count >= r.stargazers_count
         THEN <<Head(sorted)>> \o InsertByStars(r, Tail(sorted))
         ELSE <<r>> \o sorted

RECURSIVE SortByStars(_)
SortByStars(repos) ==
    IF repos = <<>> THEN <<>>
    ELSE InsertByStars(repos[Len(repos)], SortByStars(SubSeq(repos, 1, Len(repos) - 1)))

\* Array.from(new Map(allOrgs.map(org => [org.login, org])).values()): one
\* entry per login, at the position of its first occurrence, holding the
\* record of its last occurrence.
UniqueByLogin(orgs) ==
    LET firsts == {i \in DOMAIN orgs : \A j \in 1..(i - 1) : orgs[j].login # orgs[i].login}
        LastOf(l) == CHOOSE i \in DOMAIN orgs :
                        /\ orgs[i].login = l
                        /\ \A j \in DOMAIN orgs : orgs[j].login = l => j <= i
        F[i \in 0..Len(orgs)] ==
            IF i = 0 THEN <<>>
            ELSE IF i \in firsts THEN Append(F[i - 1], orgs[LastOf(orgs[i].login)])
                 ELSE F[i - 1]
    IN  F[Len(orgs)]

\* ------------------------------------------------------------ fetchFromGitHub
\* The organizations of every query that succeeded, in query order.
RECURSIVE AllOrgs(_)
AllOrgs(search) ==
    IF search = <<>> THEN <<>>
    ELSE (IF Head(search).ok THEN Head(search).items ELSE <<>>) \o AllOrgs(Tail(search))

RECURSIVE ContributorLoop(_, _, _, _, _, _)
ContributorLoop(cs, acc, resp, startupId, repo, today) ==
    IF cs = <<>> THEN acc
    ELSE
      LET c == Head(cs)
          u == resp.users[c.login]
          edge == mapContributorToEdge(c, startupId, repo.created_at, today)
          withEdge(a) == [a EXCEPT !.edges = Append(@, edge)]
          withPerson(a, p) == [a EXCEPT !.people = Append(@, p),
                                        !.peopleMap = @ \cup {c.login}]
      IN  IF c.login \in acc.peopleMap
          THEN ContributorLoop(Tail(cs), withEdge(acc), resp, startupId, repo, today)
          ELSE IF u.ok
          THEN ContributorLoop(Tail(cs), withEdge(withPerson(acc, mapGitHubToPerson(u.item))),
                               resp, startupId, repo, today)
          ELSE IF u.status = 404
          THEN ContributorLoop(Tail(cs), acc, resp, startupId, repo, today)
          ELSE ContributorLoop(Tail(cs), withEdge(withPerson(acc, MinimalPerson(c))),
                               resp, startupId, repo, today)

RECURSIVE RepoLoop(_, _, _, _, _)
RepoLoop(rs, acc, resp, org, today) ==
    IF rs = <<>> THEN acc
    ELSE
      LET repo == Head(rs)
          r == resp.contributors[<<org.login, repo.name>>]
      IN  IF r.ok
          THEN RepoLoop(Tail(rs),
                        ContributorLoop(Slice(r.items, 10), acc, resp, org.login, repo, today),
                        resp, org, today)
          ELSE RepoLoop(Tail(rs), acc, resp, org, today)

RECURSIVE OrgLoop(_, _, _, _)
OrgLoop(orgs, acc, resp, today) ==
    IF orgs = <<>> THEN acc
    ELSE
      LET org == Head(orgs)
          r == resp.repos[org.login]
      IN  IF r.ok
          THEN OrgLoop(Tail(orgs),
                       RepoLoop(Slice(SortByStars(r.items), 5),
                                [acc EXCEPT !.startups =
                                     Append(@, mapGitHubToStartup(org, r.items, today))],
                                resp, org, today),
                       resp, today)
          ELSE OrgLoop(Tail(orgs), acc, resp, today)

\* fetchFromGitHub never throws: every client call of it is inside a try.
fetchFromGitHub(resp, today) ==
    LET uniqueOrgs == Slice(UniqueByLogin(AllOrgs(resp.search)), 50)
        acc == OrgLoop(uniqueOrgs,
                       [startups |-> <<>>, people |-> <<>>, edges |-> <<>>, peopleMap |-> {}],
                       resp, today)
    IN  [ok |-> TRUE, status |-> 200,
         data |-> [startups |-> acc.startups, people |-> acc.people, edges |-> acc.edges]]

\* ------------------------------------------------------------ crunchbase-client.ts
\* crunchbaseStage.toLowerCase().replace(/_/g, '-') on the raw stage strings
\* of the model ("" is an absent funding_stage).
RawStages ==
    {"", "seed", "SEED", "series_a", "Series_B", "SERIES_B", "ipo", "pre_seed", "unknown",
     "Constructor"}

LowerHyphen(raw) ==
    CASE raw = "SEED" -> "seed"
      [] raw = "series_a" -> "series-a"
      [] raw = "Series_B" -> "series-b"
      [] raw = "SERIES_B" -> "series-b"
      [] raw = "pre_seed" -> "pre-seed"
      [] raw = "Constructor" -> "constructor"
      [] OTHER -> raw

\* stageMap is an object literal: besides its nine own keys, stageMap[key]
\* finds what it inherits from Object.prototype; of those names only
\* 'constructor' is in lower case without an underscore.
InheritedKeys == {"constructor"}

\* What stageMap['constructor'] is: the function Object, no stage.
ObjectFunction == "function Object"

normalizeFundingStage(crunchbaseStage) ==
    IF crunchbaseStage = "" THEN "seed"
    ELSE LET normalized == LowerHyphen(crunchbaseStage)
         IN  IF normalized \in CompanyStages THEN normalized
             ELSE IF normalized \in InheritedKeys THEN ObjectFunction
             ELSE "seed"

\* normalizeFundingStage of data.ts, exported next to the client's: no map.
exportedNormalizeFundingStage(crunchbaseStage) ==
    IF crunchbaseStage = "" THEN "seed" ELSE LowerHyphen(crunchbaseStage)

mapCrunchbaseToStartup(org, today) ==
    [id |-> org.uuid,
     name |-> OrElse(org.name, <<"Unknown">>),
     stage |-> normalizeFundingStage(org.funding_stage),
     foundedYear |-> IF org.founded_on # Undefined THEN getFullYear(org.founded_on)
                     ELSE getFullYear(today),
     location |-> OrElse(org.location_identifiers, <<"Unknown">>),
     description |-> OrElse(org.short_description, <<>>)]

mapCrunchbaseToPerson(person) ==
    [id |-> person.uuid,
     name |-> OrElse(person.name, <<"Unknown">>),
     bio |-> OrElse(person.bio, <<>>)]

mapCrunchbaseToEdge(relationship, sourceId, targetId) ==
    [sourceId |-> sourceId,
     targetId |-> targetId,
     type |-> "co-founded",
     sinceYear |-> IF relationship.started_on # Undefined
                   THEN getFullYear(relationship.started_on) ELSE Undefined]

\* ------------------------------------------------------------ fetchFromCrunchbase
RECURSIVE MapStartups(_, _)
MapStartups(orgs, today) ==
    IF orgs = <<>> THEN <<>>
    ELSE <<mapCrunchbaseToStartup(Head(orgs), today)>> \o MapStartups(Tail(orgs), today)

RECURSIVE MapPeople(_)
MapPeople(ps) ==
    IF ps = <<>> THEN <<>> ELSE <<mapCrunchbaseToPerson(Head(ps))>> \o MapPeople(Tail(ps))

\* The edges of one organization: a relationship without a person uuid ("")
\* is passed over.
RECURSIVE RelEdges(_, _)
RelEdges(rels, orgId) ==
    IF rels = <<>> THEN <<>>
    ELSE (IF Head(rels).person # ""
          THEN <<mapCrunchbaseToEdge(Head(rels), Head(rels).person, orgId)>>
          ELSE <<>>) \o RelEdges(Tail(rels), orgId)

RECURSIVE FounderEdges(_, _)
FounderEdges(orgs, resp) ==
    IF orgs = <<>> THEN <<>>
    ELSE LET r == resp.rels[Head(orgs).uuid]
         IN  (IF r.ok THEN RelEdges(r.items, Head(orgs).uuid) ELSE <<>>)
             \o FounderEdges(Tail(orgs), resp)

\* fetchFromCrunchbase without the try around fetchFounderRelationships.
fetchFromCrunchbaseNoTry(resp, today) ==
    IF ~resp.orgs.ok THEN [ok |-> FALSE, status |-> resp.orgs.status, data |-> EmptyData]
    ELSE IF ~resp.people.ok
    THEN [ok |-> FALSE, status |-> resp.people.status, data |-> EmptyData]
    ELSE IF \E i \in DOMAIN resp.orgs.items : ~resp.rels[resp.orgs.items[i].uuid].ok
    THEN [ok |-> FALSE, status |-> 500, data |-> EmptyData]
    ELSE [ok |-> TRUE, status |-> 200,
          data |-> [startups |-> MapStartups(resp.orgs.items, today),
                    people |-> MapPeople(resp.people.items),
                    edges |-> FounderEdges(resp.orgs.items, resp)]]

fetchFromCrunchbase(resp, today) ==
    IF ~resp.orgs.ok THEN [ok |-> FALSE, status |-> resp.orgs.status, data |-> EmptyData]
    ELSE IF ~resp.people.ok
    THEN [ok |-> FALSE, status |-> resp.people.status, data |-> EmptyData]
    ELSE [ok |-> TRUE, status |-> 200,
          data |-> [startups |-> MapStartups(resp.orgs.items, today),
                    people |-> MapPeople(resp.people.items),
                    edges |-> FounderEdges(resp.orgs.items, resp)]]

\* ------------------------------------------------------------ source responses
\* The responses GitHub may give to one run of fetchFromGitHub, built from
\* a choice of the outcome of every client call.
GitHubOrg(login, created) ==
    [login |-> login, created_at |-> created, name |-> <<>>, location |-> <<>>,
     description |-> <<>>]

GitHubRepo(name, stars, created) ==
    [name |-> name, stargazers_count |-> stars, created_at |-> created]

GitHubUser(login) == [login |-> login, name |-> <<>>, bio |-> <<>>]

SearchOutcome(kind, o1date) ==
    CASE kind = "fail" -> Err(500)
      [] kind = "none" -> Ok(<<>>)
      [] kind = "o1" -> Ok(<<GitHubOrg("o1", o1date)>>)
      [] kind = "o2o1" -> Ok(<<GitHubOrg("o2", StartDay - 3000), GitHubOrg("o1", o1date)>>)

ReposOutcome(kind) ==
    CASE kind = "fail" -> Err(500)
      [] kind = "one" -> Ok(<<GitHubRepo("r", 120, StartDay - 30)>>)

ContributorsOutcome(kind) ==
    CASE kind = "fail" -> Err(500)
      [] kind = "u1" -> Ok(<<[login |-> "u1", contributions |-> 80]>>)
      [] kind = "u2u1" -> Ok(<<[login |-> "u2", contributions |-> 7],
                               [login |-> "u1", contributions |-> 80]>>)

UserOutcome(login, status) ==
    IF status = 200 THEN [ok |-> TRUE, status |-> 200, item |-> GitHubUser(login)]
    ELSE [ok |-> FALSE, status |-> status, item |-> GitHubUser(login)]

GitHubOrgs == {"o1", "o2"}

GitHubChoices ==
    [search : [DOMAIN searchQueries -> {"fail", "none", "o1", "o2o1"}],
     o1date : {StartDay - 400, NaN},
     repos : [GitHubOrgs -> {"fail", "one"}],
     contributors : [GitHubOrgs -> {"fail", "u1", "u2u1"}],
     u1 : {200, 404, 500},
     u2 : {200, 404}]

GitHubResponse(ch) ==
    [search |-> [i \in DOMAIN searchQueries |-> SearchOutcome(ch.search[i], ch.o1date)],
     repos |-> [o \in GitHubOrgs |-> ReposOutcome(ch.repos[o])],
     contributors |-> [k \in {<<o, "r">> : o \in GitHubOrgs} |->
                          ContributorsOutcome(ch.contributors[k[1]])],
     users |-> [u \in {"u1", "u2"} |->
                   UserOutcome(u, IF u = "u1" THEN ch.u1 ELSE ch.u2)]]

\* The responses Crunchbase may give to one run of fetchFromCrunchbase.
CrunchbaseOrg(uuid, founded, stage) ==
    [uuid |-> uuid, name |-> <<>>, funding_stage |-> stage, founded_on |-> founded,
     location_identifiers |-> <<>>, short_description |-> <<>>]

CrunchbasePerson(uuid) == [uuid |-> uuid, name |-> <<>>, bio |-> <<>>]

CrunchbaseRel(person) == [person |-> person, started_on |-> StartDay - 2000]

OrgsOutcome(kind, c1date) ==
    CASE kind = "fail" -> Err(500)
      [] kind = "none" -> Ok(<<>>)
      [] kind = "c1" -> Ok(<<CrunchbaseOrg("c1", c1date, "series_a")>>)
      [] kind = "c1c2" -> Ok(<<CrunchbaseOrg("c1", c1date, "series_a"),
                               CrunchbaseOrg("c2", StartDay - 1000, "")>>)

PeopleOutcome(kind) ==
    CASE kind = "fail" -> Err(500)
      [] kind = "p1" -> Ok(<<CrunchbasePerson("p1")>>)
      [] kind = "p1p2" -> Ok(<<CrunchbasePerson("p1"), CrunchbasePerson("p2")>>)

RelsOutcome(kind) ==
    CASE kind = "fail" -> Err(500)
      [] kind = "none" -> Ok(<<>>)
      [] kind = "p1" -> Ok(<<CrunchbaseRel("p1")>>)
      [] kind = "p2" -> Ok(<<CrunchbaseRel("p2"), CrunchbaseRel("")>>)

CrunchbaseOrgs == {"c1", "c2"}

CrunchbaseChoices ==
    [orgs : {"fail", "none", "c1", "c1c2"},
     c1date : {StartDay - 700, NaN, Undefined},
     people : {"fail", "p1", "p1p2"},
     rels : [CrunchbaseOrgs -> {"fail", "none", "p1", "p2"}]]

CrunchbaseResponse(ch) ==
    [orgs |-> OrgsOutcome(ch.orgs, ch.c1date),
     people |-> PeopleOutcome(ch.people),
     rels |-> [o \in CrunchbaseOrgs |-> RelsOutcome(ch.rels[o])]]

\* data/seed.json: the bundled dataset, an unreadable file, or a document
\* that does not satisfy the schema.
GoodSeed ==
    [startups |-> <<[id |-> "s1", name |-> <<"S1">>, stage |-> "seed", foundedYear |-> 2021,
                     location |-> <<"SF">>, description |-> <<>>]>>,
     people |-> <<[id |-> "f1", name |-> <<"F1">>, bio |-> <<>>]>>,
     edges |-> <<[sourceId |-> "f1", targetId |-> "s1", type |-> "co-founded",
                  sinceYear |-> 2021]>>]

BadSchemaSeed == [GoodSeed EXCEPT !.startups[1].stage = "series-z"]

SeedFiles ==
    {[readable |-> TRUE, data |-> GoodSeed],
     [readable |-> TRUE, data |-> BadSchemaSeed],
     [readable |-> FALSE, data |-> EmptyData]}

\* ------------------------------------------------------------ cache.ts
NoEntry == [present |-> FALSE, data |-> EmptyData, timestamp |-> 0, ttl |-> 0]

\* isExpired with an entry expiring as soon as its age reaches its ttl.
isExpiredAtTTL(c, t) ==
    IF ~c.present THEN TRUE
    ELSE LET age == t - c.timestamp IN age >= c.ttl

\* DataCache.isExpired
isExpired(c, t) ==
    IF ~c.present THEN TRUE
    ELSE LET age == t - c.timestamp IN age > c.ttl

\* CacheGet that leaves an expired entry in the map.
CacheGetKeep(c, t) ==
    IF ~c.present THEN [hit |-> FALSE, data |-> EmptyData, cache |-> c]
    ELSE IF isExpired(c, t) THEN [hit |-> FALSE, data |-> EmptyData, cache |-> c]
    ELSE [hit |-> TRUE, data |-> c.data, cache |-> c]

\* DataCache.get: the value returned and the cache it leaves; an expired
\* entry is deleted.
CacheGet(c, t) ==
    IF ~c.present THEN [hit |-> FALSE, data |-> EmptyData, cache |-> c]
    ELSE IF isExpired(c, t) THEN [hit |-> FALSE, data |-> EmptyData, cache |-> NoEntry]
    ELSE [hit |-> TRUE, data |-> c.data, cache |-> c]

\* CacheSet without Date.now(): the timestamp is left at 0.
CacheSetNoStamp(data, ttl, t) == [present |-> TRUE, data |-> data, timestamp |-> 0, ttl |-> ttl]

\* DataCache.set
CacheSet(data, ttl, t) == [present |-> TRUE, data |-> data, timestamp |-> t, ttl |-> ttl]

\* DataCache.invalidate
CacheInvalidate(c) == NoEntry

\* ------------------------------------------------------------ loadAndParseGraphData
Runs == {1, 2}

Sources == {"github", "crunchbase"}

SourceTTL(src) == IF src = "github" THEN GitHubCacheTTL ELSE CrunchbaseCacheTTL

Pending == [kind |-> "pending", from |-> "none", graph |-> NoGraph]
NoStep == [source |-> "none", primaryFailed |-> FALSE, fetchOk |-> FALSE,
           fetched |-> EmptyData, validated |-> FALSE, wrote |-> FALSE,
           entry |-> NoEntry, returned |-> FALSE, graph |-> NoGraph]

Returned(from, g) == [kind |-> "graph", from |-> from, graph |-> g]
Thrown(from) == [kind |-> "error", from |-> from, graph |-> NoGraph]

\* TryStep with the cache written before the dataset is validated.
TryStepCacheFirst(fetched, ttl, t) ==
    IF ~fetched.ok
    THEN [validated |-> FALSE, wrote |-> FALSE, entry |-> NoEntry, parsed |-> {},
          returned |-> FALSE, graph |-> NoGraph]
    ELSE LET v == validateData(fetched.data)
             g == parseGraphData(v.data)
         IN  [validated |-> v.ok, wrote |-> TRUE,
              entry |-> CacheSet(fetched.data, ttl, t),
              parsed |-> IF v.ok THEN {v.data} ELSE {},
              returned |-> v.ok /\ g.ok, graph |-> IF v.ok THEN g.graph ELSE NoGraph]

\* The body of a source's try block once its fetch has settled: validate,
\* write the cache, assemble.  `wrote` tells whether dataCache.set ran,
\* `returned` whether the block returned a graph (otherwise it threw).
TryStep(fetched, ttl, t) ==
    IF ~fetched.ok
    THEN [validated |-> FALSE, wrote |-> FALSE, entry |-> NoEntry, parsed |-> {},
          returned |-> FALSE, graph |-> NoGraph]
    ELSE LET v == validateData(fetched.data)
         IN  IF ~v.ok
             THEN [validated |-> FALSE, wrote |-> FALSE, entry |-> NoEntry, parsed |-> {},
                   returned |-> FALSE, graph |-> NoGraph]
             ELSE LET g == parseGraphData(v.data)
                  IN  [validated |-> TRUE, wrote |-> TRUE,
                       entry |-> CacheSet(v.data, ttl, t), parsed |-> {v.data},
                       returned |-> g.ok, graph |-> g.graph]

\* Step 4: loadSeedData, validateData, parseGraphData; all synchronous.
SeedStep(file) ==
    IF ~file.readable THEN [ok |-> FALSE, parsed |-> {}, graph |-> NoGraph]
    ELSE LET v == validateData(file.data)
         IN  IF ~v.ok THEN [ok |-> FALSE, parsed |-> {}, graph |-> NoGraph]
             ELSE LET g == parseGraphData(v.data)
                  IN  [ok |-> g.ok, parsed |-> {v.data}, graph |-> g.graph]

\* NextStep with the two sources tried in the other order.
NextStepCrunchbaseFirst(from, c) ==
    IF from = "cache" /\ c.crunchbase.enabled THEN "crunchbase"
    ELSE IF from \in {"cache", "crunchbase"} /\ c.github.enabled THEN "github"
    ELSE "seed"

\* The step that follows `from` in the chain.
NextStep(from, c) ==
    IF from = "cache" /\ c.github.enabled THEN "github"
    ELSE IF from \in {"cache", "github"} /\ c.crunchbase.enabled THEN "crunchbase"
    ELSE "seed"

Entered(step, outcome) == [step |-> step, outcome |-> outcome]

\* The run falls through from step `from` with trace tr: it starts the fetch
\* of the next enabled source and suspends, or runs the seed step and returns.
FallThrough(p, from, tr, prs) ==
    LET nxt == NextStep(from, cfg)
        s == SeedStep(seedFile)
    IN  IF nxt = "seed"
        THEN /\ inflight' = [inflight EXCEPT ![p] = {}]
             /\ running' = [running EXCEPT ![p] = FALSE]
             /\ trace' = [trace EXCEPT ![p] =
                            Append(tr, Entered("seed", IF s.ok THEN "ok" ELSE "failed"))]
             /\ parsed' = [parsed EXCEPT ![p] = prs \cup s.parsed]
             /\ result' = [result EXCEPT ![p] =
                             IF s.ok THEN Returned("seed", s.graph) ELSE Thrown("seed")]
        ELSE /\ inflight' = [inflight EXCEPT ![p] = {nxt}]
             /\ running' = [running EXCEPT ![p] = TRUE]
             /\ trace' = [trace EXCEPT ![p] = Append(tr, Entered(nxt, "pending"))]
             /\ parsed' = [parsed EXCEPT ![p] = prs]
             /\ result' = [result EXCEPT ![p] = Pending]

\* loadAndParseGraphData up to its first await, on cache content c.
StartRun(p, c) ==
    LET g == CacheGet(c, now)
        r == parseGraphData(g.data)
    IN  /\ cache' = g.cache
        /\ lastStep' = [lastStep EXCEPT ![p] = NoStep]
        /\ IF g.hit
           THEN /\ inflight' = [inflight EXCEPT ![p] = {}]
                /\ running' = [running EXCEPT ![p] = FALSE]
                /\ trace' = [trace EXCEPT ![p] = <<Entered("cache", "hit")>>]
                /\ parsed' = [parsed EXCEPT ![p] = {g.data}]
                /\ result' = [result EXCEPT ![p] =
                                IF r.ok THEN Returned("cache", r.graph) ELSE Thrown("cache")]
           ELSE FallThrough(p, "cache", <<Entered("cache", "miss")>>, {})

\* GET /api/graph
GetGraph(p) ==
    /\ ~running[p]
    /\ StartRun(p, cache)
    /\ UNCHANGED <<cfg, seedFile, now>>

\* NoNetworkSource looking at Crunchbase alone.
NoNetworkSourceCrunchbaseOnly(c) == ~c.crunchbase.enabled

\* if (!config.github.enabled && !config.crunchbase.enabled): status 400
NoNetworkSource(c) == ~c.github.enabled /\ ~c.crunchbase.enabled

\* POST /api/graph/refresh
RefreshGraph(p) ==
    /\ ~running[p]
    /\ IF NoNetworkSource(cfg)
       THEN /\ result' = [result EXCEPT ![p] =
                            [kind |-> "clientError", from |-> "none", graph |-> NoGraph]]
            /\ trace' = [trace EXCEPT ![p] = <<>>]
            /\ parsed' = [parsed EXCEPT ![p] = {}]
            /\ lastStep' = [lastStep EXCEPT ![p] = NoStep]
            /\ UNCHANGED <<cache, inflight, running>>
       ELSE StartRun(p, CacheInvalidate(cache))
    /\ UNCHANGED <<cfg, seedFile, now>>

\* MayFallThrough with the flag ignored.
MayFallThroughAlways(src, c) == TRUE

\* catch: the error is rethrown unless the source's fallbackToSeed is set.
MayFallThrough(src, c) == c[src].fallbackToSeed

SetLast(tr, outcome) == [tr EXCEPT ![Len(tr)].outcome = outcome]

\* The fetch of source src settles with `fetched`; the rest of the try block
\* and its catch run to the next await or to the return.
SourceSettles(p, src, fetched, primaryFailed) ==
    LET st == TryStep(fetched, SourceTTL(src), now)
    IN  /\ cache' = IF st.wrote THEN st.entry ELSE cache
        /\ lastStep' = [lastStep EXCEPT ![p] =
                          [source |-> src, primaryFailed |-> primaryFailed,
                           fetchOk |-> fetched.ok, fetched |-> fetched.data,
                           validated |-> st.validated, wrote |-> st.wrote,
                           entry |-> st.entry, returned |-> st.returned,
                           graph |-> st.graph]]
        /\ IF st.returned
           THEN /\ inflight' = [inflight EXCEPT ![p] = {}]
                /\ running' = [running EXCEPT ![p] = FALSE]
                /\ trace' = [trace EXCEPT ![p] = SetLast(@, "ok")]
                /\ parsed' = [parsed EXCEPT ![p] = @ \cup st.parsed]
                /\ result' = [result EXCEPT ![p] = Returned(src, st.graph)]
           ELSE IF ~MayFallThrough(src, cfg)
           THEN /\ inflight' = [inflight EXCEPT ![p] = {}]
                /\ running' = [running EXCEPT ![p] = FALSE]
                /\ trace' = [trace EXCEPT ![p] = SetLast(@, "failed")]
                /\ parsed' = [parsed EXCEPT ![p] = @ \cup st.parsed]
                /\ result' = [result EXCEPT ![p] = Thrown(src)]
           ELSE FallThrough(p, src, SetLast(trace[p], "failed"), parsed[p] \cup st.parsed)

\* Every query of fetchFromGitHub's organization search failed.
GitHubPrimaryFailed(resp) == \A i \in DOMAIN resp.search : ~resp.search[i].ok

\* The organization or the people search of fetchFromCrunchbase failed.
CrunchbasePrimaryFailed(resp) == ~resp.orgs.ok \/ ~resp.people.ok

Days == StartDay..(StartDay + MaxDays)

\* What a run of fetchFromGitHub on day d can come to, over every response.
GitHubOutcome(ch, d) ==
    LET resp == GitHubResponse(ch)
    IN  [fetched |-> fetchFromGitHub(resp, d), primaryFailed |-> GitHubPrimaryFailed(resp)]

GitHubOutcomes == {<<d, GitHubOutcome(ch, d)>> : d \in Days, ch \in GitHubChoices}

CrunchbaseOutcome(ch, d) ==
    LET resp == CrunchbaseResponse(ch)
    IN  [fetched |-> fetchFromCrunchbase(resp, d),
         primaryFailed |-> CrunchbasePrimaryFailed(resp)]

CrunchbaseOutcomes == {<<d, CrunchbaseOutcome(ch, d)>> : d \in Days, ch \in CrunchbaseChoices}

\* The awaited fetch of run p from source src settles with one of `outcomes`.
FetchSettles(p, src, outcomes) ==
    /\ src \in inflight[p]
    /\ \E o \in outcomes :
          /\ o[1] = now
          /\ SourceSettles(p, src, o[2].fetched, o[2].primaryFailed)
    /\ UNCHANGED <<cfg, seedFile, now>>

GitHubSettles(p) == FetchSettles(p, "github", GitHubOutcomes)

CrunchbaseSettles(p) == FetchSettles(p, "crunchbase", CrunchbaseOutcomes)

\* DataCache.getStats: the number of entries of the map and their keys,
\* whatever their age.
CacheGetStats(c) ==
    IF c.present THEN [size |-> 1, keys |-> {"graph-data"}] ELSE [size |-> 0, keys |-> {}]

\* GET /api/graph/stats: getStats is read first, then dataCache.get evicts an
\* expired entry; dataSource is
\* read off the configuration.
GetStats ==
    LET cacheStats == CacheGetStats(cache)
        g == CacheGet(cache, now)
    IN  /\ cache' = g.cache
        /\ stats' = [dataSource |-> IF cfg.github.enabled THEN "github"
                                    ELSE IF cfg.crunchbase.enabled THEN "crunchbase"
                                    ELSE "seed",
                     size |-> cacheStats.size,
                     keys |-> cacheStats.keys,
                     isCached |-> g.hit,
                     isExpired |-> IF g.hit THEN isExpired(g.cache, now) ELSE TRUE]
        /\ UNCHANGED <<cfg, seedFile, now, inflight, running, trace, result, lastStep,
                       parsed>>

\* A day passes.
Tick ==
    /\ now < StartDay + MaxDays
    /\ now' = now + 1
    /\ UNCHANGED <<cfg, seedFile, cache, inflight, running, trace, parsed, result, lastStep>>

NoCall ==
    [op |-> "none", hadEntry |-> FALSE, overlap |-> FALSE, preRefresh |-> FALSE, writes |-> {}]

NoStats ==
    [dataSource |-> "none", size |-> 0, keys |-> {}, isCached |-> FALSE, isExpired |-> TRUE]

\* config: a disabled source keeps the default fallbackToSeed (true).
Configs ==
    {c \in [github : [enabled : BOOLEAN, fallbackToSeed : BOOLEAN],
            crunchbase : [enabled : BOOLEAN, fallbackToSeed : BOOLEAN]] :
        /\ ~c.github.enabled => c.github.fallbackToSeed
        /\ ~c.crunchbase.enabled => c.crunchbase.fallbackToSeed}

OrchInit ==
    /\ stats = NoStats
    /\ call = [p \in Runs |-> NoCall]
    /\ cfg \in Configs
    /\ seedFile \in SeedFiles
    /\ cache = NoEntry
    /\ now = StartDay
    /\ inflight = [p \in Runs |-> {}]
    /\ running = [p \in Runs |-> FALSE]
    /\ trace = [p \in Runs |-> <<>>]
    /\ parsed = [p \in Runs |-> {}]
    /\ result = [p \in Runs |-> [kind |-> "none", from |-> "none", graph |-> NoGraph]]
    /\ lastStep = [p \in Runs |-> NoStep]

\* ------------------------------------------------------------ RateLimiter
\* config.*.rateLimitDelay, in ms.
RateLimitDelay == 2

Callers == {1, 2}

Idle == [pc |-> "idle", wakeAt |-> 0]

\* The caller is back from wait() at time t.
Admit(t) == IF Len(rets) < 2 THEN Append(rets, t) ELSE <<rets[2], t>>

\* wait() up to its await: Date.now() is read, and either a timer is set
\* for the remaining delay or lastRequestTime is written at once.
WaitCall(c) ==
    /\ rl[c].pc = "idle"
    /\ LET timeSinceLastRequest == clock - lastRequestTime
       IN  IF timeSinceLastRequest < RateLimitDelay
           THEN /\ rl' = [rl EXCEPT ![c] =
                            [pc |-> "sleeping",
                             wakeAt |-> clock + (RateLimitDelay - timeSinceLastRequest)]]
                /\ UNCHANGED <<lastRequestTime, rets>>
           ELSE /\ lastRequestTime' = clock
                /\ rets' = Admit(clock)
                /\ UNCHANGED rl
    /\ UNCHANGED clock

\* The timer of a sleeping caller has fired: lastRequestTime = Date.now().
WaitWake(c) ==
    /\ rl[c].pc = "sleeping"
    /\ clock >= rl[c].wakeAt
    /\ lastRequestTime' = clock
    /\ rets' = Admit(clock)
    /\ rl' = [rl EXCEPT ![c] = Idle]
    /\ UNCHANGED clock

TickMs ==
    /\ clock < RateLimitDelay + MaxClock
    /\ clock' = clock + 1
    /\ UNCHANGED <<lastRequestTime, rl, rets>>

\* A fresh limiter: lastRequestTime is 0 and Date.now() is far beyond delay.
LimInit ==
    /\ clock = RateLimitDelay
    /\ lastRequestTime = 0
    /\ rl = [c \in Callers |-> Idle]
    /\ rets = <<>>

\* ------------------------------------------------------------ retryRequest
Clients == {"github", "crunchbase"}

\* config.*.maxRetries: the default, and the budgets the model draws.
DefaultMaxRetries == 3
Budgets == 0..MaxBudget

\* An error with no response (network error, timeout): status is undefined.
NoStatus == 0
NoHeader == Undefined

\* The responses of the underlying call: success, or an error with its status
\* and, on the two rate-limit statuses, its Retry-After header in seconds.
Responses ==
    [status : {200, 400, 404, 500, NoStatus}, retryAfter : {NoHeader}]
        \cup [status : {403, 429}, retryAfter : {NoHeader, 0, 2}]

\* The status a client treats as rate limiting, and the seconds it sleeps
\* when the response carries no Retry-After header.
RateLimitStatus(client) == IF client = "github" THEN 403 ELSE 429
DefaultRetryAfter(client) == IF client = "github" THEN 60 ELSE 5

\* parseInt(headers['retry-after'] || default, 10)
RetryAfterSeconds(client, header) ==
    IF header = NoHeader THEN DefaultRetryAfter(client) ELSE header

\* BudgetExhausted off by one.
BudgetExhaustedLate(retries) == retries < 0

\* if (retries <= 0) throw error
BudgetExhausted(retries) == retries <= 0

\* IsServerError taking every 4xx for a server error too.
IsServerErrorLoose(status) == status >= 400

\* status && status >= 500
IsServerError(status) == status # NoStatus /\ status >= 500

\* The mutant of Pow2: a delay that grows by one second with each retry.
Pow2Linear(n) == n + 1

RECURSIVE Pow2(_)
Pow2(n) == IF n <= 0 THEN 1 ELSE 2 * Pow2(n - 1)

\* The catch block of retryRequest on an error response: rethrow, or sleep
\* for `seconds` and retry with one retry less.
OnError(client, resp, retries, maxRetries) ==
    IF BudgetExhausted(retries) THEN [retry |-> FALSE, seconds |-> 0]
    ELSE IF client = "github" /\ resp.status = 404 THEN [retry |-> FALSE, seconds |-> 0]
    ELSE IF resp.status = RateLimitStatus(client)
    THEN [retry |-> TRUE, seconds |-> RetryAfterSeconds(client, resp.retryAfter)]
    ELSE IF IsServerError(resp.status)
    THEN [retry |-> TRUE, seconds |-> Pow2(maxRetries - retries)]
    ELSE [retry |-> FALSE, seconds |-> 0]

NoOutcome == [kind |-> "none", resp |-> [status |-> NoStatus, retryAfter |-> NoHeader]]

\* retryRequest(requestFn) has been called with the default retries argument.
NewRequest(client, maxRetries) ==
    [client |-> client, maxRetries |-> maxRetries, retries |-> maxRetries,
     pc |-> "start", calls |-> 0, outstanding |-> 0, history |-> <<>>,
     slept |-> <<>>, outcome |-> NoOutcome, log |-> <<>>]

\* try: await this.rateLimiter.wait() has returned.
Wait ==
    /\ rq.pc = "start"
    /\ rq' = [rq EXCEPT !.pc = "waited", !.log = Append(@, "wait")]

\* requestFn() is invoked.
Invoke ==
    /\ rq.pc = "waited"
    /\ rq' = [rq EXCEPT !.pc = "awaiting", !.calls = @ + 1, !.outstanding = @ + 1,
                        !.log = Append(@, "call")]

\* The mutant of RetryEntry: the retry goes to requestFn() at once.
RetryEntryAtCall == "waited"

\* this.retryRequest(requestFn, retries - 1) enters the function at its try.
RetryEntry == "start"

\* requestFn() settles with resp: return it, or run the catch block up to
\* its throw or its timer.
Respond(resp) ==
    /\ rq.pc = "awaiting"
    /\ LET e == OnError(rq.client, resp, rq.retries, rq.maxRetries)
           h == Append(rq.history, resp)
       IN  IF resp.status = 200
           THEN rq' = [rq EXCEPT !.pc = "done", !.outstanding = @ - 1, !.history = h,
                                 !.outcome = [kind |-> "returned", resp |-> resp]]
           ELSE IF ~e.retry
           THEN rq' = [rq EXCEPT !.pc = "done", !.outstanding = @ - 1, !.history = h,
                                 !.outcome = [kind |-> "thrown", resp |-> resp]]
           ELSE rq' = [rq EXCEPT !.pc = "sleeping", !.outstanding = @ - 1, !.history = h,
                                 !.slept = Append(@, e.seconds),
                                 !.log = Append(@, "sleep")]

\* The timer fires: this.retryRequest(requestFn, retries - 1).
TimerFires ==
    /\ rq.pc = "sleeping"
    /\ rq' = [rq EXCEPT !.pc = RetryEntry, !.retries = @ - 1]

RetryInit == rq \in {NewRequest(c, m) : c \in Clients, m \in Budgets}

RetryIdle == rq = [NewRequest("github", DefaultMaxRetries) EXCEPT !.pc = "idle"]

\* ------------------------------------------------------------ DataCache, several keys
StoreKeys == {"graph-data", "other"}
StoreData == {EmptyData, GoodSeed}
StoreTTLs == {0, 2}

NoRet == [hit |-> FALSE, data |-> EmptyData, flag |-> FALSE, size |-> 0, keys |-> {},
          timestamp |-> 0]
NoOp == [op |-> "none", key |-> "graph-data", ret |-> NoRet]
NeverSet == [set |-> FALSE, data |-> EmptyData, ttl |-> 0, at |-> 0, dropped |-> FALSE]

\* get(key)
StoreGet(k) ==
    LET r == CacheGet(store[k], stime)
    IN  /\ store' = [store EXCEPT ![k] = r.cache]
        /\ probe' = [probe EXCEPT !.last =
                        [op |-> "get", key |-> k,
                         ret |-> [NoRet EXCEPT !.hit = r.hit, !.data = r.data]]]
        /\ UNCHANGED stime

\* set(key, data, ttl)
StoreSet(k, d, ttl) ==
    /\ store' = [store EXCEPT ![k] = CacheSet(d, ttl, stime)]
    /\ probe' = [last |-> [op |-> "set", key |-> k, ret |-> NoRet],
                 sets |-> [probe.sets EXCEPT ![k] =
                              [set |-> TRUE, data |-> d, ttl |-> ttl, at |-> stime,
                               dropped |-> FALSE]]]
    /\ UNCHANGED stime

\* invalidate(key)
StoreInvalidate(k) ==
    /\ store' = [store EXCEPT ![k] = CacheInvalidate(store[k])]
    /\ probe' = [last |-> [op |-> "invalidate", key |-> k, ret |-> NoRet],
                 sets |-> [probe.sets EXCEPT ![k].dropped = TRUE]]
    /\ UNCHANGED stime

\* clear()
StoreClear ==
    /\ store' = [k \in StoreKeys |-> NoEntry]
    /\ probe' = [last |-> [op |-> "clear", key |-> "graph-data", ret |-> NoRet],
                 sets |-> [k \in StoreKeys |-> [probe.sets[k] EXCEPT !.dropped = TRUE]]]
    /\ UNCHANGED stime

\* isExpired(key)
StoreIsExpired(k) ==
    /\ probe' = [probe EXCEPT !.last =
                    [op |-> "isExpired", key |-> k,
                     ret |-> [NoRet EXCEPT !.flag = isExpired(store[k], stime)]]]
    /\ UNCHANGED <<store, stime>>

\* getStats()
StoreGetStats ==
    LET keys == {k \in StoreKeys : store[k].present}
    IN  /\ probe' = [probe EXCEPT !.last =
                        [op |-> "getStats", key |-> "graph-data",
                         ret |-> [NoRet EXCEPT !.size = Cardinality(keys), !.keys = keys]]]
        /\ UNCHANGED <<store, stime>>

\* getTimestamp(key): flag tells whether a timestamp (not null) is returned.
StoreGetTimestamp(k) ==
    /\ probe' = [probe EXCEPT !.last =
                    [op |-> "getTimestamp", key |-> k,
                     ret |-> [NoRet EXCEPT !.flag = store[k].present,
                                           !.timestamp = store[k].timestamp]]]
    /\ UNCHANGED <<store, stime>>

\* A millisecond passes.
StoreTick ==
    /\ stime < MaxAge
    /\ stime' = stime + 1
    /\ probe' = [probe EXCEPT !.last = NoOp]
    /\ UNCHANGED store

\* new DataCache()
StoreInit ==
    /\ store = [k \in StoreKeys |-> NoEntry]
    /\ stime = 0
    /\ probe = [last |-> NoOp, sets |-> [k \in StoreKeys |-> NeverSet]]

StoreIdle == StoreInit

\* ------------------------------------------------------------ specifications
OrchIdle ==
    /\ stats = NoStats
    /\ call = [p \in Runs |-> NoCall]
    /\ cfg = [github |-> [enabled |-> FALSE, fallbackToSeed |-> TRUE],
              crunchbase |-> [enabled |-> FALSE, fallbackToSeed |-> TRUE]]
    /\ seedFile = [readable |-> TRUE, data |-> GoodSeed]
    /\ cache = NoEntry
    /\ now = StartDay
    /\ inflight = [p \in Runs |-> {}]
    /\ running = [p \in Runs |-> FALSE]
    /\ trace = [p \in Runs |-> <<>>]
    /\ parsed = [p \in Runs |-> {}]
    /\ result = [p \in Runs |-> [kind |-> "none", from |-> "none", graph |-> NoGraph]]
    /\ lastStep = [p \in Runs |-> NoStep]

LimIdle ==
    /\ clock = 0
    /\ lastRequestTime = 0
    /\ rl = [c \in Callers |-> Idle]
    /\ rets = <<>>

NoFetch == [source |-> "none"]

FetchIdle ==
    /\ fin = NoFetch
    /\ fout = [done |-> FALSE]

\* The orchestrator serving one request at a time: run 1 serves every call.
Init == OrchInit /\ FetchIdle /\ LimIdle /\ RetryIdle /\ StoreIdle

Next ==
    \/ GetGraph(1) /\ UNCHANGED <<apiVars, fetchVars, limVars, retryVars, storeVars>>
    \/ RefreshGraph(1) /\ UNCHANGED <<apiVars, fetchVars, limVars, retryVars, storeVars>>
    \/ GitHubSettles(1) /\ UNCHANGED <<apiVars, fetchVars, limVars, retryVars, storeVars>>
    \/ CrunchbaseSettles(1) /\ UNCHANGED <<apiVars, fetchVars, limVars, retryVars, storeVars>>
    \/ Tick /\ UNCHANGED <<apiVars, fetchVars, limVars, retryVars, storeVars>>

Spec == Init /\ [][Next]_vars

\* The two fetch functions applied to every response of the model.
FetchInit ==
    /\ fin \in [source : {"github"}, ch : GitHubChoices]
               \cup [source : {"crunchbase"}, ch : CrunchbaseChoices]
    /\ fout = [done |-> FALSE]
    /\ OrchIdle
    /\ LimIdle
    /\ RetryIdle
    /\ StoreIdle

FetchGitHub ==
    /\ fin.source = "github"
    /\ ~fout.done
    /\ fout' = [done |-> TRUE, fetched |-> fetchFromGitHub(GitHubResponse(fin.ch), now)]
    /\ UNCHANGED <<fin, orchVars, limVars, retryVars, storeVars>>

FetchCrunchbase ==
    /\ fin.source = "crunchbase"
    /\ ~fout.done
    /\ fout' = [done |-> TRUE,
                fetched |-> fetchFromCrunchbase(CrunchbaseResponse(fin.ch), now)]
    /\ UNCHANGED <<fin, orchVars, limVars, retryVars, storeVars>>

FetchNext == FetchGitHub \/ FetchCrunchbase

FetchSpec == FetchInit /\ [][FetchNext]_vars

\* One rate limiter shared by two callers whose calls may overlap.
LimSpecInit == LimInit /\ OrchIdle /\ FetchIdle /\ RetryIdle /\ StoreIdle

LimNext ==
    \/ \E c \in Callers : WaitCall(c) /\ UNCHANGED <<orchVars, fetchVars, retryVars, storeVars>>
    \/ \E c \in Callers : WaitWake(c) /\ UNCHANGED <<orchVars, fetchVars, retryVars, storeVars>>
    \/ TickMs /\ UNCHANGED <<orchVars, fetchVars, retryVars, storeVars>>

LimSpec == LimSpecInit /\ [][LimNext]_vars

\* One request through retryRequest of either client, over every response.
RetrySpecInit == RetryInit /\ OrchIdle /\ FetchIdle /\ LimIdle /\ StoreIdle

RetryNext ==
    \/ Wait /\ UNCHANGED <<orchVars, fetchVars, limVars, storeVars>>
    \/ Invoke /\ UNCHANGED <<orchVars, fetchVars, limVars, storeVars>>
    \/ \E resp \in Responses : Respond(resp) /\ UNCHANGED <<orchVars, fetchVars, limVars, storeVars>>
    \/ TimerFires /\ UNCHANGED <<orchVars, fetchVars, limVars, storeVars>>

RetrySpec == RetrySpecInit /\ [][RetryNext]_vars /\ WF_vars(RetryNext)

\* Any sequence of operations on one DataCache.
StoreSpecInit == StoreInit /\ OrchIdle /\ FetchIdle /\ LimIdle /\ RetryIdle

StoreNext ==
    \/ \E k \in StoreKeys : StoreGet(k) /\ UNCHANGED <<orchVars, fetchVars, limVars, retryVars>>
    \/ \E k \in StoreKeys, d \in StoreData, ttl \in StoreTTLs :
          StoreSet(k, d, ttl) /\ UNCHANGED <<orchVars, fetchVars, limVars, retryVars>>
    \/ \E k \in StoreKeys : StoreInvalidate(k) /\ UNCHANGED <<orchVars, fetchVars, limVars, retryVars>>
    \/ StoreClear /\ UNCHANGED <<orchVars, fetchVars, limVars, retryVars>>
    \/ \E k \in StoreKeys : StoreIsExpired(k) /\ UNCHANGED <<orchVars, fetchVars, limVars, retryVars>>
    \/ StoreGetStats /\ UNCHANGED <<orchVars, fetchVars, limVars, retryVars>>
    \/ \E k \in StoreKeys : StoreGetTimestamp(k) /\ UNCHANGED <<orchVars, fetchVars, limVars, retryVars>>
    \/ StoreTick /\ UNCHANGED <<orchVars, fetchVars, limVars, retryVars>>

StoreSpec == StoreSpecInit /\ [][StoreNext]_vars


\* ------------------------------------------------------------ the API routes, concurrently
\* The responses drawn when two requests are served at once: one search
\* query answering, no contributors; one Crunchbase organization.
ConcGitHubChoices ==
    {ch \in GitHubChoices :
        /\ ch.search[1] \in {"fail", "o1"}
        /\ ch.search[2] = "none"
        /\ \A o \in GitHubOrgs : ch.repos[o] = "one" /\ ch.contributors[o] = "fail"
        /\ ch.u1 = 200 /\ ch.u2 = 200}

ConcCrunchbaseChoices ==
    {ch \in CrunchbaseChoices :
        /\ ch.orgs \in {"fail", "c1"}
        /\ ch.c1date = StartDay - 700
        /\ ch.people = "p1"
        /\ ch.rels["c2"] = "none"
        /\ ch.rels["c1"] \in {"p1", "p2"}}

ConcGitHubOutcomes == {<<d, GitHubOutcome(ch, d)>> : d \in Days, ch \in ConcGitHubChoices}

ConcCrunchbaseOutcomes ==
    {<<d, CrunchbaseOutcome(ch, d)>> : d \in Days, ch \in ConcCrunchbaseChoices}

\* The route reaches dataCache.invalidate('graph-data'): the refresh route
\* unless it answers 400 first.
Invalidates(op) == op = "refreshGraph" /\ ~NoNetworkSource(cfg)

\* Route op starts a run as p: whether 'graph-data' was cached and unexpired,
\* which runs are being served at the same time, and which of them await a
\* fetch that started before this route invalidated the entry.
StartCall(p, op) ==
    call' = [q \in Runs |->
                IF q = p
                THEN [op |-> op, hadEntry |-> ~isExpired(cache, now),
                      overlap |-> \E r \in Runs \ {p} : running[r],
                      preRefresh |-> FALSE, writes |-> {}]
                ELSE IF running[q]
                THEN [call[q] EXCEPT !.overlap = TRUE,
                                     !.preRefresh = @ \/ Invalidates(op)]
                ELSE call[q]]

ApiGetGraph(p) == GetGraph(p) /\ StartCall(p, "getGraph") /\ UNCHANGED stats

ApiRefreshGraph(p) == RefreshGraph(p) /\ StartCall(p, "refreshGraph") /\ UNCHANGED stats

ApiSettles(p, src, outcomes) ==
    /\ FetchSettles(p, src, outcomes)
    /\ call' = [call EXCEPT ![p].writes =
                   IF lastStep'[p].wrote
                   THEN @ \cup {[data |-> lastStep'[p].fetched, ttl |-> SourceTTL(src),
                                 at |-> now]}
                   ELSE @,
                              ![p].preRefresh = @ /\ ~running'[p]]
    /\ UNCHANGED stats

ApiGetStats == GetStats /\ UNCHANGED call

ApiTick == Tick /\ UNCHANGED apiVars

\* The three routes serving one request at a time: run 1 serves every call.
ApiInit == OrchInit /\ FetchIdle /\ LimIdle /\ RetryIdle /\ StoreIdle

ApiNext ==
    \/ ApiGetGraph(1) /\ UNCHANGED <<fetchVars, limVars, retryVars, storeVars>>
    \/ ApiRefreshGraph(1) /\ UNCHANGED <<fetchVars, limVars, retryVars, storeVars>>
    \/ ApiSettles(1, "github", ConcGitHubOutcomes)
          /\ UNCHANGED <<fetchVars, limVars, retryVars, storeVars>>
    \/ ApiSettles(1, "crunchbase", ConcCrunchbaseOutcomes)
          /\ UNCHANGED <<fetchVars, limVars, retryVars, storeVars>>
    \/ ApiGetStats /\ UNCHANGED <<fetchVars, limVars, retryVars, storeVars>>
    \/ ApiTick /\ UNCHANGED <<fetchVars, limVars, retryVars, storeVars>>

ApiSpec == ApiInit /\ [][ApiNext]_vars

\* Two GET /api/graph requests, one call each, served at the same time or
\* one after the other.
FirstGetGraph(p) == call[p].op = "none" /\ ApiGetGraph(p)

ConcNext ==
    \/ \E p \in Runs : FirstGetGraph(p) /\ UNCHANGED <<fetchVars, limVars, retryVars, storeVars>>
    \/ \E p \in Runs : ApiSettles(p, "github", ConcGitHubOutcomes)
                          /\ UNCHANGED <<fetchVars, limVars, retryVars, storeVars>>
    \/ \E p \in Runs : ApiSettles(p, "crunchbase", ConcCrunchbaseOutcomes)
                          /\ UNCHANGED <<fetchVars, limVars, retryVars, storeVars>>
    \/ ApiTick /\ UNCHANGED <<fetchVars, limVars, retryVars, storeVars>>

ConcSpec == ApiInit /\ [][ConcNext]_vars

\* One GET /api/graph (run 1) and one POST /api/graph/refresh (run 2), served
\* at the same time or one after the other.
FirstRefreshGraph(p) == call[p].op = "none" /\ ApiRefreshGraph(p)

RaceNext ==
    \/ FirstGetGraph(1) /\ UNCHANGED <<fetchVars, limVars, retryVars, storeVars>>
    \/ FirstRefreshGraph(2) /\ UNCHANGED <<fetchVars, limVars, retryVars, storeVars>>
    \/ \E p \in Runs : ApiSettles(p, "github", ConcGitHubOutcomes)
                          /\ UNCHANGED <<fetchVars, limVars, retryVars, storeVars>>
    \/ \E p \in Runs : ApiSettles(p, "crunchbase", ConcCrunchbaseOutcomes)
                          /\ UNCHANGED <<fetchVars, limVars, retryVars, storeVars>>
    \/ ApiTick /\ UNCHANGED <<fetchVars, limVars, retryVars, storeVars>>

RaceSpec == ApiInit /\ [][RaceNext]_vars

\* ------------------------------------------------------------ datasets to assemble
SeqsUpTo(S, n) == UNION {[1..k -> S] : k \in 0..n}

\* Schema-valid records: startup ids a, b; person ids a, c (a is shared by
\* the two kinds); edges between known and unknown ids.
DrawnStartup(id) ==
    [id |-> id, name |-> <<id>>, stage |-> "seed", foundedYear |-> 2020,
     location |-> <<"SF">>, description |-> <<>>]

DrawnPerson(id) == [id |-> id, name |-> <<id>>, bio |-> <<>>]

DrawnEdges ==
    {[sourceId |-> "c", targetId |-> "a", type |-> "co-founded", sinceYear |-> 2020],
     [sourceId |-> "c", targetId |-> "a", type |-> "works-at", sinceYear |-> Undefined],
     [sourceId |-> "x", targetId |-> "a", type |-> "co-founded", sinceYear |-> 2020],
     [sourceId |-> "c", targetId |-> "y", type |-> "works-at", sinceYear |-> Undefined],
     [sourceId |-> "x", targetId |-> "y", type |-> "invests-in", sinceYear |-> 2021],
     [sourceId |-> "b", targetId |-> "a", type |-> "invests-in", sinceYear |-> Undefined]}

Datasets ==
    [startups : SeqsUpTo({DrawnStartup(i) : i \in {"a", "b"}}, MaxEntities),
     people : SeqsUpTo({DrawnPerson(i) : i \in {"a", "c"}}, MaxEntities),
     edges : SeqsUpTo(DrawnEdges, MaxEdges)]

ParseInit ==
    /\ fin \in [source : {"dataset"}, data : Datasets]
    /\ fout = [done |-> FALSE]
    /\ OrchIdle
    /\ LimIdle
    /\ RetryIdle
    /\ StoreIdle

\* validateData, then parseGraphData on what it returned.
ParseDataset ==
    /\ fin.source = "dataset"
    /\ ~fout.done
    /\ LET v == validateData(fin.data)
       IN  fout' = [done |-> TRUE, validated |-> v.ok, parsed |-> parseGraphData(v.data)]
    /\ UNCHANGED <<fin, orchVars, limVars, retryVars, storeVars>>

ParseNext == ParseDataset

ParseSpec == ParseInit /\ [][ParseNext]_vars

\* ------------------------------------------------------------ graph-utils.ts
\* Strings that are searched (names, the search term) are sequences of
\* characters over a small alphabet.
LowerChar(c) == CASE c = "A" -> "a" [] c = "B" -> "b" [] OTHER -> c

\* String.prototype.toLowerCase
toLowerCase(s) == [i \in 1..Len(s) |-> LowerChar(s[i])]

RECURSIVE trimStart(_)
trimStart(s) == IF Len(s) > 0 /\ s[1] = " " THEN trimStart(Tail(s)) ELSE s

RECURSIVE trimEnd(_)
trimEnd(s) ==
    IF Len(s) > 0 /\ s[Len(s)] = " " THEN trimEnd(SubSeq(s, 1, Len(s) - 1)) ELSE s

\* String.prototype.trim
trim(s) == trimEnd(trimStart(s))

\* String.prototype.includes
includes(hay, needle) ==
    \E i \in 0..(Len(hay) - Len(needle)) : SubSeq(hay, i + 1, i + Len(needle)) = needle

\* An optional property of FilterCriteria: absent, or given with a value.
Absent == [given |-> FALSE, value |-> <<>>]
Given(v) == [given |-> TRUE, value |-> v]

\* Array.prototype.find returning undefined.
NoNode == [id |-> "", type |-> "undefined"]

RECURSIVE findNodeById(_, _)
findNodeById(nodes, nodeId) ==
    IF nodes = <<>> THEN NoNode
    ELSE IF Head(nodes).id = nodeId THEN Head(nodes)
         ELSE findNodeById(Tail(nodes), nodeId)

\* The mutant of connectedNodeIds: only the edges leaving the node.
connectedNodeIdsOutgoing(nodeId, edges) ==
    {edges[i].target : i \in {j \in DOMAIN edges : edges[j].source = nodeId}}

\* The loop of getNeighbors over the edges: the ids collected in the Set.
connectedNodeIds(nodeId, edges) ==
    {edges[i].target : i \in {j \in DOMAIN edges : edges[j].source = nodeId}}
    \cup
    {edges[i].source : i \in {j \in DOMAIN edges :
                                  edges[j].source # nodeId /\ edges[j].target = nodeId}}

\* The mutant of getNeighbors: one node for each edge that touches the node.
RECURSIVE getNeighborsPerEdge(_, _, _)
getNeighborsPerEdge(nodeId, nodes, edges) ==
    IF edges = <<>> THEN <<>>
    ELSE LET edge == Head(edges)
             other == IF edge.source = nodeId THEN findNodeById(nodes, edge.target)
                      ELSE IF edge.target = nodeId THEN findNodeById(nodes, edge.source)
                      ELSE NoNode
         IN  (IF other.type = "undefined" THEN <<>> ELSE <<other>>)
             \o getNeighborsPerEdge(nodeId, nodes, Tail(edges))

getNeighbors(nodeId, nodes, edges) ==
    SeqFilter(nodes, {n \in Range(nodes) : n.id \in connectedNodeIds(nodeId, edges)})

\* An array is a reference and its items; the arrays of the argument are
\* referenced as "data".
DataArray(items) == [ref |-> "data", items |-> items]
NewArray(items) == [ref |-> "new", items |-> items]

\* The mutant of Spread: the array itself.
SpreadAlias(a) == a

\* [...array]
Spread(a) == NewArray(a.items)

\* Array.prototype.filter
ArrayFilter(a, keep) == NewArray(SeqFilter(a.items, keep))

\* Array.prototype.push
ArrayPush(a, x) == [a EXCEPT !.items = Append(@, x)]

NodeIds(nodes) == {nodes[i].id : i \in DOMAIN nodes}

\* The mutant of MatchesTags: every tag of the criterion is required.
MatchesAllTags(node, tags) ==
    /\ node.type = "startup"
    /\ \A i \in DOMAIN tags : tags[i] \in Range(node.data.domainTags)

\* The callbacks of the three node filters.
MatchesTags(node, tags) ==
    /\ node.type = "startup"
    /\ \E i \in DOMAIN tags : tags[i] \in Range(node.data.domainTags)

MatchesStages(node, stages) ==
    node.type = "startup" /\ node.data.stage \in Range(stages)

MatchesSearch(node, searchLower) == includes(toLowerCase(node.data.name), searchLower)

\* The mutant of ListGiven: the length is not looked at.
ListGivenTruthy(list) == list.given

\* criteria.domainTags && criteria.domainTags.length > 0, and the same of stages
ListGiven(list) == list.given /\ Len(list.value) > 0

\* criteria.searchTerm && criteria.searchTerm.trim().length > 0
SearchGiven(criteria) ==
    /\ criteria.searchTerm.given
    /\ Len(criteria.searchTerm.value) > 0
    /\ Len(trim(criteria.searchTerm.value)) > 0

\* criteria.domainTags || criteria.stages: an array, empty or not, is truthy.
RepairGuard(criteria) == criteria.domainTags.given \/ criteria.stages.given

\* The mutant of EdgesWithin: one endpoint among the ids is enough.
EdgesTouching(a, ids) ==
    ArrayFilter(a, {e \in Range(a.items) : e.source \in ids \/ e.target \in ids})

EdgesWithin(a, ids) ==
    ArrayFilter(a, {e \in Range(a.items) : e.source \in ids /\ e.target \in ids})

SetAdd(ids, id) == IF id \in Range(ids) THEN ids ELSE Append(ids, id)

\* The mutant of ConnectedPersonIds: only the sources of the edges are looked up.
RECURSIVE ConnectedSourceIds(_, _, _, _)
ConnectedSourceIds(edges, nodes, filteredNodeIds, acc) ==
    IF edges = <<>> THEN acc
    ELSE LET edge == Head(edges)
             sourceNode == findNodeById(nodes, edge.source)
         IN  ConnectedSourceIds(Tail(edges), nodes, filteredNodeIds,
                                IF /\ edge.target \in filteredNodeIds
                                   /\ sourceNode.type = "person"
                                THEN SetAdd(acc, sourceNode.id) ELSE acc)

\* The loop over the original edges: connectedPersonIds in insertion order.
RECURSIVE ConnectedPersonIds(_, _, _, _)
ConnectedPersonIds(edges, nodes, filteredNodeIds, acc) ==
    IF edges = <<>> THEN acc
    ELSE LET edge == Head(edges)
             targetNode == findNodeById(nodes, edge.target)
             sourceNode == findNodeById(nodes, edge.source)
             a1 == IF /\ edge.source \in filteredNodeIds
                      /\ targetNode.type = "person"
                   THEN SetAdd(acc, targetNode.id) ELSE acc
             a2 == IF /\ edge.target \in filteredNodeIds
                      /\ sourceNode.type = "person"
                   THEN SetAdd(a1, sourceNode.id) ELSE a1
         IN  ConnectedPersonIds(Tail(edges), nodes, filteredNodeIds, a2)

\* The loop over connectedPersonIds: the missing nodes are pushed.
RECURSIVE PushConnected(_, _, _)
PushConnected(a, ids, nodes) ==
    IF ids = <<>> THEN a
    ELSE LET node == findNodeById(nodes, Head(ids))
         IN  PushConnected(IF node.type # "undefined" /\ node.id \notin NodeIds(a.items)
                           THEN ArrayPush(a, node) ELSE a,
                           Tail(ids), nodes)

\* The mutant of RefilterEdges: the edges filtered before the repair are kept.
RefilterEdgesKept(data, filteredEdges, filteredNodes) == filteredEdges

\* Re-filter edges to include new connections: the original edges between the
\* final nodes.
RefilterEdges(data, filteredEdges, filteredNodes) ==
    EdgesWithin(DataArray(data.edges), NodeIds(filteredNodes.items))

\* filterGraph(data, criteria): the arrays returned, whether each of them is
\* an array of the argument, and the argument as the call leaves it.
filterGraph(data, criteria) ==
    LET n0 == Spread(DataArray(data.nodes))
        e0 == Spread(DataArray(data.edges))
        n1 == IF ListGiven(criteria.domainTags)
              THEN ArrayFilter(n0, {n \in Range(n0.items) :
                                       MatchesTags(n, criteria.domainTags.value)})
              ELSE n0
        n2 == IF ListGiven(criteria.stages)
              THEN ArrayFilter(n1, {n \in Range(n1.items) :
                                       MatchesStages(n, criteria.stages.value)})
              ELSE n1
        n3 == IF SearchGiven(criteria)
              THEN ArrayFilter(n2, {n \in Range(n2.items) :
                          MatchesSearch(n, trim(toLowerCase(criteria.searchTerm.value)))})
              ELSE n2
        e1 == EdgesWithin(e0, NodeIds(n3.items))
        repair == RepairGuard(criteria)
        n4 == IF repair
              THEN PushConnected(n3,
                       ConnectedPersonIds(data.edges, data.nodes, NodeIds(n3.items), <<>>),
                       data.nodes)
              ELSE n3
        e2 == IF repair THEN RefilterEdges(data, e1, n4) ELSE e1
    IN  [nodes |-> n4.items,
         edges |-> e2.items,
         aliased |-> n4.ref = "data" \/ e2.ref = "data",
         data |-> [nodes |-> IF n4.ref = "data" THEN n4.items ELSE data.nodes,
                   edges |-> IF e2.ref = "data" THEN e2.items ELSE data.edges]]

\* ------------------------------------------------------------ graphs to filter
\* Graphs as parseGraphData returns them: node ids are distinct and every edge
\* joins two nodes of the graph.  The nodes carry the fields filterGraph reads.
PoolStartup(id, name, tags, stage) ==
    StartupNode([id |-> id, name |-> name, domainTags |-> tags, stage |-> stage])

PoolPerson(id, name) == PersonNode([id |-> id, name |-> name])

NodePool ==
    <<PoolStartup("s1", <<"a", "b">>, <<"AI", "ML">>, "seed"),
      PoolPerson("p1", <<"a">>),
      PoolStartup("s2", <<"b">>, <<"Healthcare">>, "growth"),
      PoolPerson("p2", <<"B">>),
      PoolStartup("s3", <<"A", " ", "a">>, <<"AI">>, "seed")>>

PoolEdge(id, source, target, type) ==
    [id |-> id, source |-> source, target |-> target, type |-> type]

EdgePool ==
    <<PoolEdge("e1", "p1", "s1", "co-founded"),
      PoolEdge("e2", "p2", "s2", "co-founded"),
      PoolEdge("e3", "p1", "s3", "works-at"),
      PoolEdge("e4", "s3", "s2", "invests-in"),
      PoolEdge("e5", "s1", "p2", "works-at"),
      PoolEdge("e6", "p1", "p2", "invests-in"),
      PoolEdge("e7", "s1", "p1", "invests-in")>>

PoolIds == NodeIds(NodePool)

RECURSIVE Reverse(_)
Reverse(s) == IF s = <<>> THEN <<>> ELSE Append(Reverse(Tail(s)), Head(s))

GraphOf(pool, S, T) ==
    [nodes |-> SeqFilter(pool, {n \in Range(pool) : n.id \in S}),
     edges |-> SeqFilter(EdgePool, T)]

Graphs ==
    {GraphOf(pool, S, T) :
        pool \in {NodePool, Reverse(NodePool)},
        S \in SUBSET PoolIds,
        T \in {U \in SUBSET Range(EdgePool) : Cardinality(U) <= MaxLinks}}

WellFormed(g) == \A e \in Range(g.edges) : e.source \in NodeIds(g.nodes) /\ e.target \in NodeIds(g.nodes)

Terms == SeqsUpTo({"A", " "}, MaxTerm)

Criterias ==
    [domainTags : {Absent, Given(<<>>), Given(<<"AI">>), Given(<<"ML", "Healthcare">>)},
     stages : {Absent, Given(<<>>), Given(<<"seed">>)},
     searchTerm : {Absent} \cup {Given(t) : t \in Terms}]

GraphInit ==
    /\ fin \in [source : {"filter"}, data : {g \in Graphs : WellFormed(g)},
                criteria : Criterias]
               \cup
               [source : {"neighbors"}, data : {g \in Graphs : WellFormed(g)},
                nodeId : PoolIds]
    /\ fout = [done |-> FALSE]
    /\ OrchIdle
    /\ LimIdle
    /\ RetryIdle
    /\ StoreIdle

FilterGraph ==
    /\ fin.source = "filter"
    /\ ~fout.done
    /\ fout' = [done |-> TRUE, out |-> filterGraph(fin.data, fin.criteria)]
    /\ UNCHANGED <<fin, orchVars, limVars, retryVars, storeVars>>

GetNeighbors ==
    /\ fin.source = "neighbors"
    /\ ~fout.done
    /\ fout' = [done |-> TRUE,
                out |-> getNeighbors(fin.nodeId, fin.data.nodes, fin.data.edges)]
    /\ UNCHANGED <<fin, orchVars, limVars, retryVars, storeVars>>

GraphNext == FilterGraph \/ GetNeighbors

GraphSpec == GraphInit /\ [][GraphNext]_vars

\* filterGraph applied to the graph it returned, under the same criteria.
FilterGraphAgain ==
    /\ fin.source = "filter"
    /\ fout.done
    /\ "again" \notin DOMAIN fout
    /\ fout' = [done |-> TRUE, out |-> fout.out,
                again |-> filterGraph([nodes |-> fout.out.nodes, edges |-> fout.out.edges],
                                      fin.criteria)]
    /\ UNCHANGED <<fin, orchVars, limVars, retryVars, storeVars>>

IdemInit ==
    /\ fin \in [source : {"filter"}, data : {g \in Graphs : WellFormed(g)},
                criteria : Criterias]
    /\ fout = [done |-> FALSE]
    /\ OrchIdle
    /\ LimIdle
    /\ RetryIdle
    /\ StoreIdle

IdemNext == FilterGraph \/ FilterGraphAgain

IdemSpec == IdemInit /\ [][IdemNext]_vars

\* Any node list and edge list, an edge with a missing endpoint included.
AnyGraphs ==
    {GraphOf(NodePool, S, T) :
        S \in SUBSET PoolIds,
        T \in {U \in SUBSET Range(EdgePool) : Cardinality(U) <= MaxLinks}}

AnyGraphInit ==
    /\ fin \in [source : {"filter"}, data : AnyGraphs,
                criteria : {c \in Criterias : c.searchTerm \in {Absent, Given(<<"A">>)}}]
               \cup
               [source : {"neighbors"}, data : AnyGraphs, nodeId : PoolIds]
    /\ fout = [done |-> FALSE]
    /\ OrchIdle
    /\ LimIdle
    /\ RetryIdle
    /\ StoreIdle

AnyGraphSpec == AnyGraphInit /\ [][GraphNext]_vars

\* ------------------------------------------------------------ SeedDataSchema
\* A JSON value as validateData receives it: its type as zod names it, and
\* its content.  A property that is missing from an object reads undefined.
\* A number is v, or v + 0.5 when half is set.
JUndefined == [t |-> "undefined"]
JNull == [t |-> "null"]
JNaN == [t |-> "nan"]
JString(s) == [t |-> "string", v |-> s]
JNumber(n) == [t |-> "number", v |-> n, half |-> FALSE]
JHalf(n) == [t |-> "number", v |-> n, half |-> TRUE]
JArray(items) == [t |-> "array", items |-> items]
JObject(fields) == [t |-> "object", f |-> fields]

\* A zod issue: e.path and e.message.
Issue(path, message) == <<[path |-> path, message |-> message]>>

\* path.join('.') writes an index as its decimal digits.
IndexName(i) == CASE i = 0 -> "0" [] i = 1 -> "1" [] i = 2 -> "2" [] OTHER -> "3"

InvalidType(path, expected, v) ==
    IF v.t = "undefined" THEN Issue(path, <<"Required">>)
    ELSE Issue(path, <<"Expected ", expected, ", received ", v.t>>)

\* z.string()
ParseString(v, path) == IF v.t = "string" THEN <<>> ELSE InvalidType(path, "string", v)

RECURSIVE ParseStrings(_, _, _)
ParseStrings(items, path, i) ==
    IF items = <<>> THEN <<>>
    ELSE ParseString(Head(items), path \o <<IndexName(i)>>)
         \o ParseStrings(Tail(items), path, i + 1)

\* z.array(z.string())
ParseStringArray(v, path) ==
    IF v.t = "array" THEN ParseStrings(v.items, path, 0) ELSE InvalidType(path, "array", v)

\* z.enum(values)
ParseEnum(v, path, values) ==
    IF v.t # "string" THEN InvalidType(path, "enum value", v)
    ELSE IF v.v \in values THEN <<>>
         ELSE Issue(path, <<"Invalid enum value, received ", v.v>>)

\* z.number().int().min(1900).max(2100), optional() for sinceYear: every
\* check of a number is run.
ParseYear(v, path, optional) ==
    IF v.t = "undefined" /\ optional THEN <<>>
    ELSE IF v.t # "number" THEN InvalidType(path, "number", v)
    ELSE (IF v.half THEN Issue(path, <<"Expected integer, received float">>) ELSE <<>>)
         \o (IF v.v < 1900
             THEN Issue(path, <<"Number must be greater than or equal to 1900">>)
             ELSE <<>>)
         \o (IF v.v > 2100 \/ (v.v = 2100 /\ v.half)
             THEN Issue(path, <<"Number must be less than or equal to 2100">>)
             ELSE <<>>)

\* StartupSchema
ParseStartup(v, path) ==
    IF v.t # "object" THEN InvalidType(path, "object", v)
    ELSE ParseString(v.f.id, path \o <<"id">>)
         \o ParseString(v.f.name, path \o <<"name">>)
         \o ParseStringArray(v.f.domainTags, path \o <<"domainTags">>)
         \o ParseEnum(v.f.stage, path \o <<"stage">>, CompanyStages)
         \o ParseYear(v.f.foundedYear, path \o <<"foundedYear">>, FALSE)
         \o ParseString(v.f.location, path \o <<"location">>)
         \o ParseString(v.f.description, path \o <<"description">>)

\* PersonSchema
ParsePerson(v, path) ==
    IF v.t # "object" THEN InvalidType(path, "object", v)
    ELSE ParseString(v.f.id, path \o <<"id">>)
         \o ParseString(v.f.name, path \o <<"name">>)
         \o ParseStringArray(v.f.roles, path \o <<"roles">>)
         \o ParseStringArray(v.f.keywords, path \o <<"keywords">>)
         \o ParseString(v.f.bio, path \o <<"bio">>)

\* EdgeSchema
ParseEdge(v, path) ==
    IF v.t # "object" THEN InvalidType(path, "object", v)
    ELSE ParseString(v.f.sourceId, path \o <<"sourceId">>)
         \o ParseString(v.f.targetId, path \o <<"targetId">>)
         \o ParseEnum(v.f.type, path \o <<"type">>, EdgeTypes)
         \o ParseYear(v.f.sinceYear, path \o <<"sinceYear">>, TRUE)

ParseRecord(kind, v, path) ==
    CASE kind = "startups" -> ParseStartup(v, path)
      [] kind = "people" -> ParsePerson(v, path)
      [] kind = "edges" -> ParseEdge(v, path)

RECURSIVE ParseRecords(_, _, _)
ParseRecords(kind, items, i) ==
    IF items = <<>> THEN <<>>
    ELSE ParseRecord(kind, Head(items), <<kind, IndexName(i)>>)
         \o ParseRecords(kind, Tail(items), i + 1)

\* z.array(StartupSchema), z.array(PersonSchema), z.array(EdgeSchema)
ParseRecordArray(kind, v) ==
    IF v.t = "array" THEN ParseRecords(kind, v.items, 0) ELSE InvalidType(<<kind>>, "array", v)

\* SeedDataSchema: the issues of a value, in the order zod reports them.
SchemaIssues(v) ==
    IF v.t # "object" THEN InvalidType(<<>>, "object", v)
    ELSE ParseRecordArray("startups", v.f.startups)
         \o ParseRecordArray("people", v.f.people)
         \o ParseRecordArray("edges", v.f.edges)

\* The value zod returns for a value without issues: the properties of the
\* schema, an absent sinceYear staying absent.
StringsOf(v) == [i \in 1..Len(v.items) |-> v.items[i].v]

StartupOf(v) ==
    [id |-> v.f.id.v, name |-> v.f.name.v, domainTags |-> StringsOf(v.f.domainTags),
     stage |-> v.f.stage.v, foundedYear |-> v.f.foundedYear.v,
     location |-> v.f.location.v, description |-> v.f.description.v]

PersonOf(v) ==
    [id |-> v.f.id.v, name |-> v.f.name.v, roles |-> StringsOf(v.f.roles),
     keywords |-> StringsOf(v.f.keywords), bio |-> v.f.bio.v]

\* The mutant of EdgeOf: an absent sinceYear is returned as 0.
EdgeOfZeroYear(v) ==
    [sourceId |-> v.f.sourceId.v, targetId |-> v.f.targetId.v, type |-> v.f.type.v,
     sinceYear |-> IF v.f.sinceYear.t = "undefined" THEN 0 ELSE v.f.sinceYear.v]

EdgeOf(v) ==
    [sourceId |-> v.f.sourceId.v, targetId |-> v.f.targetId.v, type |-> v.f.type.v,
     sinceYear |-> IF v.f.sinceYear.t = "undefined" THEN Undefined ELSE v.f.sinceYear.v]

SeedDataOf(v) ==
    [startups |-> [i \in 1..Len(v.f.startups.items) |-> StartupOf(v.f.startups.items[i])],
     people |-> [i \in 1..Len(v.f.people.items) |-> PersonOf(v.f.people.items[i])],
     edges |-> [i \in 1..Len(v.f.edges.items) |-> EdgeOf(v.f.edges.items[i])]]

\* `${e.path.join('.')}: ${e.message}`
RECURSIVE JoinWith(_, _)
JoinWith(parts, sep) ==
    IF parts = <<>> THEN <<>>
    ELSE IF Len(parts) = 1 THEN Head(parts)
         ELSE Head(parts) \o <<sep>> \o JoinWith(Tail(parts), sep)

FormatIssue(e) ==
    JoinWith([i \in 1..Len(e.path) |-> <<e.path[i]>>], ".") \o <<": ">> \o e.message

\* The mutant of FormatIssues: the first issue alone is written.
FormatFirstIssue(issues) == FormatIssue(issues[1])

\* error.errors.map(...).join(', ')
FormatIssues(issues) == JoinWith([i \in 1..Len(issues) |-> FormatIssue(issues[i])], ", ")

\* validateData on a JSON value: the parsed data, or the message of the
\* Error thrown.
validateJson(v) ==
    LET issues == SchemaIssues(v)
    IN  IF issues = <<>>
        THEN [ok |-> TRUE, data |-> SeedDataOf(v), message |-> <<>>]
        ELSE [ok |-> FALSE, data |-> EmptyData,
              message |-> <<"Data validation failed: ">> \o FormatIssues(issues)]

\* JSON.parse(JSON.stringify(data)) of a dataset: an absent sinceYear is not
\* written, NaN is written as null.
JsonStrings(s) == JArray([i \in 1..Len(s) |-> JString(s[i])])

JsonYear(y) ==
    IF y = Undefined THEN JUndefined ELSE IF y = NaN THEN JNull ELSE JNumber(y)

JsonStartup(s) ==
    JObject([id |-> JString(s.id), name |-> JString(s.name),
             domainTags |-> JsonStrings(s.domainTags), stage |-> JString(s.stage),
             foundedYear |-> JsonYear(s.foundedYear), location |-> JString(s.location),
             description |-> JString(s.description)])

JsonPerson(p) ==
    JObject([id |-> JString(p.id), name |-> JString(p.name), roles |-> JsonStrings(p.roles),
             keywords |-> JsonStrings(p.keywords), bio |-> JString(p.bio)])

JsonEdge(e) ==
    JObject([sourceId |-> JString(e.sourceId), targetId |-> JString(e.targetId),
             type |-> JString(e.type), sinceYear |-> JsonYear(e.sinceYear)])

JsonSeedData(d) ==
    JObject([startups |-> JArray([i \in 1..Len(d.startups) |-> JsonStartup(d.startups[i])]),
             people |-> JArray([i \in 1..Len(d.people) |-> JsonPerson(d.people[i])]),
             edges |-> JArray([i \in 1..Len(d.edges) |-> JsonEdge(d.edges[i])])])

\* ------------------------------------------------------------ values to validate
\* Datasets that satisfy the schema, every property of the schema written out.
FullStartups ==
    {[id |-> "s1", name |-> "S1", domainTags |-> <<"AI", "ML">>, stage |-> "seed",
      foundedYear |-> 2020, location |-> "SF", description |-> "d"],
     [id |-> "s2", name |-> "S2", domainTags |-> <<>>, stage |-> "ipo",
      foundedYear |-> 1900, location |-> "", description |-> ""],
     [id |-> "s1", name |-> "S3", domainTags |-> <<"AI", "AI">>, stage |-> "acquired",
      foundedYear |-> 2100, location |-> "NY", description |-> "d"]}

FullPeople ==
    {[id |-> "p1", name |-> "P1", roles |-> <<"Founder", "CEO">>, keywords |-> <<"AI">>,
      bio |-> "b"],
     [id |-> "p2", name |-> "", roles |-> <<>>, keywords |-> <<>>, bio |-> ""]}

FullEdges ==
    {[sourceId |-> "p1", targetId |-> "s1", type |-> "co-founded", sinceYear |-> 2020],
     [sourceId |-> "p2", targetId |-> "s1", type |-> "works-at", sinceYear |-> Undefined],
     [sourceId |-> "zz", targetId |-> "s2", type |-> "invests-in", sinceYear |-> 1900]}

FullDatasets ==
    [startups : SeqsUpTo(FullStartups, MaxEntities),
     people : SeqsUpTo(FullPeople, MaxEntities),
     edges : SeqsUpTo(FullEdges, MaxEdges)]

\* The value that is damaged: one startup, one person, two edges.
SoundValue ==
    JsonSeedData([startups |-> <<CHOOSE s \in FullStartups : s.name = "S1">>,
                  people |-> <<CHOOSE p \in FullPeople : p.id = "p1">>,
                  edges |-> <<CHOOSE e \in FullEdges : e.sourceId = "p1",
                              CHOOSE e \in FullEdges : e.sourceId = "p2">>])

\* Replacements of one place of a value: a property of a record, a record, a
\* list, the value itself.
NotAString == {JUndefined, JNumber(7)}
NotStrings == {JUndefined, JString("AI"), JArray(<<JString("AI"), JNumber(7)>>)}
NotAnEnum == {JUndefined, JString("series-z"), JNumber(7)}
Years ==
    {JUndefined, JNull, JNaN, JString("2020"), JNumber(1899), JNumber(1900), JNumber(2100),
     JNumber(2101), JHalf(2020), JHalf(1899), JHalf(2100)}

Replacement(path, values) == {[path |-> path, value |-> v] : v \in values}

Replacements ==
    UNION ({Replacement(<<"startups", 1, f>>, NotAString) :
               f \in {"id", "name", "location", "description"}}
           \cup {Replacement(<<"people", 1, f>>, NotAString) : f \in {"id", "name", "bio"}}
           \cup {Replacement(<<"edges", i, f>>, NotAString) :
                    i \in {1, 2}, f \in {"sourceId", "targetId"}}
           \cup {Replacement(<<"startups", 1, "domainTags">>, NotStrings),
                 Replacement(<<"people", 1, "roles">>, NotStrings),
                 Replacement(<<"people", 1, "keywords">>, NotStrings),
                 Replacement(<<"startups", 1, "stage">>, NotAnEnum),
                 Replacement(<<"edges", 1, "type">>, NotAnEnum),
                 Replacement(<<"edges", 2, "type">>, NotAnEnum),
                 Replacement(<<"startups", 1, "foundedYear">>, Years),
                 Replacement(<<"edges", 1, "sinceYear">>, Years),
                 Replacement(<<"edges", 2, "sinceYear">>, Years),
                 Replacement(<<"startups", 1>>, {JNull}),
                 Replacement(<<"people", 1>>, {JString("p1")}),
                 Replacement(<<"edges", 2>>, {JNull}),
                 Replacement(<<"startups">>, {JUndefined}),
                 Replacement(<<"people">>, {JObject([id |-> JString("p1")])}),
                 Replacement(<<"edges">>, {JNull}),
                 Replacement(<<>>, {JNull, JUndefined})})

Replace(v, r) ==
    CASE Len(r.path) = 0 -> r.value
      [] Len(r.path) = 1 -> [v EXCEPT !.f[r.path[1]] = r.value]
      [] Len(r.path) = 2 -> [v EXCEPT !.f[r.path[1]].items[r.path[2]] = r.value]
      [] Len(r.path) = 3 ->
            [v EXCEPT !.f[r.path[1]].items[r.path[2]].f[r.path[3]] = r.value]

\* The replacements of a set are made from the innermost place outwards.
RECURSIVE ReplaceAll(_, _, _)
ReplaceAll(v, rs, depth) ==
    IF depth < 0 THEN v
    ELSE LET here == {r \in rs : Len(r.path) = depth}
         IN  IF here = {} THEN ReplaceAll(v, rs, depth - 1)
             ELSE LET r == CHOOSE x \in here : TRUE
                  IN  ReplaceAll(Replace(v, r), rs \ {r}, depth)

\* The sets of at most n replacements, no two of them of the same place.
RECURSIVE ReplacementSets(_)
ReplacementSets(n) ==
    IF n = 0 THEN {{}}
    ELSE LET smaller == ReplacementSets(n - 1)
         IN  smaller \cup {rs \cup {r} : rs \in smaller,
                              r \in Replacements}

Values ==
    {ReplaceAll(SoundValue, rs, 3) :
        rs \in {x \in ReplacementSets(MaxDefects) :
                   \A r1, r2 \in x : r1.path = r2.path => r1 = r2}}

SchemaInit ==
    /\ fin \in [source : {"value"}, data : Values]
               \cup [source : {"file"}, data : FullDatasets]
    /\ fout = [done |-> FALSE]
    /\ OrchIdle
    /\ LimIdle
    /\ RetryIdle
    /\ StoreIdle

\* validateData(value)
ValidateValue ==
    /\ fin.source = "value"
    /\ ~fout.done
    /\ fout' = [done |-> TRUE, out |-> validateJson(fin.data)]
    /\ UNCHANGED <<fin, orchVars, limVars, retryVars, storeVars>>

\* validateData(JSON.parse(JSON.stringify(dataset)))
ValidateSerialized ==
    /\ fin.source = "file"
    /\ ~fout.done
    /\ fout' = [done |-> TRUE, out |-> validateJson(JsonSeedData(fin.data))]
    /\ UNCHANGED <<fin, orchVars, limVars, retryVars, storeVars>>

SchemaNext == ValidateValue \/ ValidateSerialized

SchemaSpec == SchemaInit /\ [][SchemaNext]_vars

\* ------------------------------------------------------------ records to map
\* The mappers of the two clients on single source records, run at two
\* wall-clock times.
MapTimes == {StartDay, StartDay + 1, StartDay + DaysPerYear}

Texts == {<<>>, <<"text">>}

SourceRecords ==
    [source : {"records"},
     org : {[login |-> "o1", created_at |-> c, name |-> <<>>, location |-> l,
             description |-> d] :
                c \in {StartDay - 400, StartDay - 30}, l \in Texts, d \in Texts},
     repos : {<<GitHubRepo("r", 50, StartDay - 30)>>},
     user : {[login |-> "u1", name |-> <<>>, bio |-> b] : b \in Texts},
     contributor : {[login |-> "u1", contributions |-> n] : n \in {7, 80}},
     repoCreatedAt : {Undefined, StartDay - 179, StartDay - 1000},
     organization : {[uuid |-> "c1", name |-> <<>>, funding_stage |-> "series_a",
                      founded_on |-> f, location_identifiers |-> l,
                      short_description |-> <<>>] :
                         f \in {Undefined, StartDay - 700}, l \in Texts},
     person : {[uuid |-> "p1", name |-> <<>>, bio |-> b] : b \in Texts},
     first : MapTimes,
     again : MapTimes]

\* One run of the mappers over the records, at the time today.
MapAll(r, today) ==
    [startup |-> mapGitHubToStartup(r.org, r.repos, today),
     member |-> mapGitHubToPerson(r.user),
     edge |-> mapContributorToEdge(r.contributor, r.org.login, r.repoCreatedAt, today),
     organization |-> mapCrunchbaseToStartup(r.organization, today),
     person |-> mapCrunchbaseToPerson(r.person)]

\* The stage inference on an organization with the given number of
\* repositories, stars in total and age in years.
ProxyCounts == {1, 9, 10, 49, 50}
ProxyStars == {0, 99, 100, 999, 1000, 9999, 10000}
ProxyAges == {0, 1, 2, 4, 5, 6}

Proxies == [source : {"proxies"}, repoCount : ProxyCounts, totalStars : ProxyStars,
            orgAge : ProxyAges]

ProxyOrg(p) == GitHubOrg("o1", StartDay - p.orgAge * DaysPerYear)

ProxyRepos(p) ==
    [i \in 1..p.repoCount |->
        GitHubRepo("r", IF i = 1 THEN p.totalStars ELSE 0, StartDay - 30)]

MapInit ==
    /\ fin \in SourceRecords
               \cup Proxies
               \cup [source : {"stage"}, raw : RawStages]
    /\ fout = [done |-> FALSE]
    /\ OrchIdle
    /\ LimIdle
    /\ RetryIdle
    /\ StoreIdle

\* The first run of the mappers.
MapRecords ==
    /\ fin.source = "records"
    /\ ~fout.done
    /\ fout' = [done |-> TRUE, runs |-> 1, first |-> MapAll(fin, fin.first)]
    /\ UNCHANGED <<fin, orchVars, limVars, retryVars, storeVars>>

\* A second run over the same records.
MapRecordsAgain ==
    /\ fin.source = "records"
    /\ fout.done
    /\ fout.runs = 1
    /\ fout' = [done |-> TRUE, runs |-> 2, first |-> fout.first,
                again |-> MapAll(fin, fin.again)]
    /\ UNCHANGED <<fin, orchVars, limVars, retryVars, storeVars>>

InferStage ==
    /\ fin.source = "proxies"
    /\ ~fout.done
    /\ fout' = [done |-> TRUE,
                stage |-> inferFundingStage(ProxyOrg(fin), ProxyRepos(fin), StartDay)]
    /\ UNCHANGED <<fin, orchVars, limVars, retryVars, storeVars>>

NormalizeStage ==
    /\ fin.source = "stage"
    /\ ~fout.done
    /\ fout' = [done |-> TRUE,
                client |-> normalizeFundingStage(fin.raw),
                exported |-> exportedNormalizeFundingStage(fin.raw)]
    /\ UNCHANGED <<fin, orchVars, limVars, retryVars, storeVars>>

MapNext == MapRecords \/ MapRecordsAgain \/ InferStage \/ NormalizeStage

MapSpec == MapInit /\ [][MapNext]_vars

\* ------------------------------------------------------------ properties
Rank(step) ==
    CASE step = "cache" -> 0
      [] step = "github" -> 1
      [] step = "crunchbase" -> 2
      [] step = "seed" -> 3

\* C1: within one run the steps are entered in the order cache, GitHub,
\* Crunchbase, seed; a step is entered only after the cache missed and
\* every earlier enabled step was entered and failed; at most one source
\* fetch is in flight; a step that succeeds (a cache hit included) is the
\* last one entered, and nothing is in flight once the run has returned.
C1_StrictlySequential ==
    \A p \in Runs :
      LET tr == trace[p]
      IN  /\ \A i, j \in DOMAIN tr : i < j => Rank(tr[i].step) < Rank(tr[j].step)
          /\ tr # <<>> => tr[1].step = "cache"
          /\ \A i \in DOMAIN tr : i < Len(tr) => tr[i].outcome \in {"miss", "failed"}
          /\ \A i \in DOMAIN tr : tr[i].step \in Sources => cfg[tr[i].step].enabled
          /\ \A i \in DOMAIN tr : \A src \in Sources :
                (cfg[src].enabled /\ Rank(src) < Rank(tr[i].step))
                    => \E j \in 1..(i - 1) : tr[j].step = src
          /\ Cardinality(inflight[p]) <= 1
          /\ inflight[p] = {tr[i].step : i \in {k \in DOMAIN tr : tr[k].outcome = "pending"}}
          /\ ~running[p] => inflight[p] = {}
          /\ result[p].kind = "graph" =>
                /\ ~running[p]
                /\ tr[Len(tr)].step = result[p].from
                /\ tr[Len(tr)].outcome \in {"hit", "ok"}

\* A run that went through all four steps and ended in the seed fallback.
C1_Witness ==
    /\ Len(trace[1]) = 4
    /\ trace[1][2] = Entered("github", "failed")
    /\ trace[1][3] = Entered("crunchbase", "failed")
    /\ result[1] = Returned("seed", parseGraphData(GoodSeed).graph)

SeedCorrupted == ~SeedStep(seedFile).ok

\* C2: a call returns an error only when some enabled source has its
\* fallback flag off or the seed document is corrupted; that is, with every
\* enabled source's fallback flag on and a valid seed, every call returns a
\* graph, whatever the cache holds and whatever calls came before.
C2_ErrorOnlyWhenExhausted ==
    \A p \in Runs :
        result[p].kind = "error" =>
            \/ \E src \in Sources : cfg[src].enabled /\ ~cfg[src].fallbackToSeed
            \/ SeedCorrupted

\* C3: when the primary call of a source step fails, the step fails:
\* nothing is written to the cache and no graph is returned from it.
C3_PrimaryFailureFailsStep ==
    \A p \in Runs :
        lastStep[p].primaryFailed => ~lastStep[p].wrote /\ ~lastStep[p].returned

\* C4: the cached dataset has no duplicate id and no dangling edge, so
\* assembling a cache hit never fails.
C4_CacheAssemblable == cache.present => parseGraphData(cache.data).ok

\* C5: the dataset in the cache and every dataset handed to parseGraphData
\* is one that validateData returns without error.
C5_ValidationGate ==
    /\ cache.present =>
          validateData(cache.data).ok /\ validateData(cache.data).data = cache.data
    /\ \A p \in Runs : \A d \in parsed[p] :
          validateData(d).ok /\ validateData(d).data = d

\* A source's dataset passed the gate, was cached and assembled.
C5_Witness ==
    /\ cache.present
    /\ cache.data # EmptyData
    /\ cache.data \in parsed[1]
    /\ result[1].kind = "graph"
    /\ result[1].from = "github"

\* C6: when a source's fetch, map and validate succeed, the cache entry is
\* that dataset with that source's TTL and the run returns the graph
\* assembled from it.
C6_SuccessCachedAndReturned ==
    \A p \in Runs :
        lastStep[p].validated =>
            /\ lastStep[p].wrote
            /\ lastStep[p].entry.data = lastStep[p].fetched
            /\ lastStep[p].entry.ttl = SourceTTL(lastStep[p].source)
            /\ lastStep[p].returned
            /\ lastStep[p].graph = parseGraphData(lastStep[p].fetched).graph

\* C7: a failed source step whose fallbackToSeed is false ends the run with
\* that failure and no later step is entered; with the flag true the next
\* step of the chain is entered.
C7_FallbackFlag ==
    \A p \in Runs : \A i \in DOMAIN trace[p] :
      LET e == trace[p][i]
      IN  (e.step \in Sources /\ e.outcome = "failed") =>
            IF cfg[e.step].fallbackToSeed
            THEN /\ i < Len(trace[p])
                 /\ trace[p][i + 1].step =
                       IF e.step = "github" /\ cfg.crunchbase.enabled
                       THEN "crunchbase" ELSE "seed"
            ELSE /\ i = Len(trace[p])
                 /\ ~running[p]
                 /\ result[p] = Thrown(e.step)

\* GitHub failed with its flag off while Crunchbase is enabled and untried.
C7_Witness ==
    /\ cfg.crunchbase.enabled
    /\ ~cfg.github.fallbackToSeed
    /\ trace[1] = <<Entered("cache", "miss"), Entered("github", "failed")>>
    /\ result[1] = Thrown("github")

\* The records of a dataset that pass the schema.
ValidRecords(d) ==
    [startups |-> SeqFilter(d.startups,
                     {x \in Range(d.startups) :
                         x.stage \in CompanyStages /\ YearOK(x.foundedYear)}),
     people |-> d.people,
     edges |-> SeqFilter(d.edges,
                  {x \in Range(d.edges) :
                      /\ x.type \in EdgeTypes
                      /\ x.sinceYear = Undefined \/ YearOK(x.sinceYear)})]

\* C9: when a fetched dataset holds a record that fails the schema beside
\* valid ones, that record alone is skipped: the step does not fail, and
\* the source's valid records are cached.
C9_BadRecordSkipped ==
    \A p \in Runs :
        (/\ lastStep[p].fetchOk
         /\ ValidRecords(lastStep[p].fetched) # lastStep[p].fetched
         /\ ValidRecords(lastStep[p].fetched).startups # <<>>) =>
            /\ lastStep[p].wrote
            /\ lastStep[p].entry.data = ValidRecords(lastStep[p].fetched)

\* C8 -------------------------------------------------------------------
\* The organizations GitHub's search returned, by the queries that succeeded.
FoundOrgs(ch) ==
    UNION {CASE ch.search[i] = "o1" -> {"o1"}
             [] ch.search[i] = "o2o1" -> {"o1", "o2"}
             [] OTHER -> {} : i \in DOMAIN ch.search}

ContributorsOf(kind) ==
    CASE kind = "u1" -> {"u1"} [] kind = "u2u1" -> {"u1", "u2"} [] OTHER -> {}

UserStatus(ch, u) == IF u = "u1" THEN ch.u1 ELSE ch.u2

IdsOf(records) == {records[i].id : i \in DOMAIN records}
EdgePairs(edges) == {<<edges[i].sourceId, edges[i].targetId>> : i \in DOMAIN edges}

C8_GitHub(ch, fetched) ==
    /\ fetched.ok
    /\ IdsOf(fetched.data.startups) = {o \in FoundOrgs(ch) : ch.repos[o] = "one"}
    /\ \A o \in FoundOrgs(ch) :
          ch.repos[o] = "one" =>
             \A u \in ContributorsOf(ch.contributors[o]) :
                UserStatus(ch, u) # 404 =>
                   /\ <<u, o>> \in EdgePairs(fetched.data.edges)
                   /\ u \in IdsOf(fetched.data.people)

OrgsOf(kind) == CASE kind = "c1" -> {"c1"} [] kind = "c1c2" -> {"c1", "c2"} [] OTHER -> {}
FoundersOf(kind) == CASE kind = "p1" -> {"p1"} [] kind = "p2" -> {"p2"} [] OTHER -> {}

C8_Crunchbase(ch, fetched) ==
    (ch.orgs # "fail" /\ ch.people # "fail") =>
        /\ fetched.ok
        /\ IdsOf(fetched.data.startups) = OrgsOf(ch.orgs)
        /\ EdgePairs(fetched.data.edges) =
              {<<f, o>> : f \in {"p1", "p2"}, o \in OrgsOf(ch.orgs)}
              \cap {pr \in {"p1", "p2"} \X {"c1", "c2"} : pr[1] \in FoundersOf(ch.rels[pr[2]])}

\* C8: the failure of one organization's sub-resource fetch is caught: the
\* fetch still completes and its dataset holds the records of every
\* organization whose sub-fetches succeeded.
C8_SubFetchFailureSkipped ==
    fout.done =>
        IF fin.source = "github" THEN C8_GitHub(fin.ch, fout.fetched)
        ELSE C8_Crunchbase(fin.ch, fout.fetched)

\* One organization's relationships failed, the other's edge was fetched.
C8_Witness ==
    /\ fout.done
    /\ fin.source = "crunchbase"
    /\ fin.ch.orgs = "c1c2"
    /\ fin.ch.people = "p1"
    /\ fin.ch.rels["c1"] = "fail"
    /\ fin.ch.rels["c2"] = "p1"
    /\ EdgePairs(fout.fetched.data.edges) = {<<"p1", "c2">>}

\* C10: any two consecutive returns from wait() of one limiter are at least
\* delay ms apart, whatever the interleaving of its callers.
C10_MinimumSpacing == Len(rets) = 2 => rets[2] - rets[1] >= RateLimitDelay

\* ------------------------------------------------------------ retryRequest properties
Last(seq) == seq[Len(seq)]

C11_Inv ==
    /\ rq.calls <= rq.maxRetries + 1
    /\ rq.outstanding \in {0, 1}
    /\ rq.pc = "done" =>
          /\ rq.calls = Len(rq.history)
          /\ rq.outcome.resp = Last(rq.history)
          /\ \A i \in 1..(Len(rq.history) - 1) : rq.history[i].status # 200
          /\ rq.outcome.kind = "returned" <=> Last(rq.history).status = 200
          /\ rq.outcome.kind = "thrown" <=> Last(rq.history).status # 200
          /\ (\A i \in DOMAIN rq.history : rq.history[i].status = 500)
                => rq.calls = rq.maxRetries + 1

\* C11: a request invokes the underlying call at most maxRetries + 1 times,
\* one attempt at a time, and always ends, having returned the first
\* successful response or thrown the last error; when every response is
\* HTTP 500 the call is invoked exactly maxRetries + 1 times.
C11_BoundedRetries == []C11_Inv /\ <>(rq.pc = "done")

C11_Witness ==
    /\ rq.pc = "done"
    /\ rq.maxRetries = DefaultMaxRetries
    /\ rq.calls = 4
    /\ \A i \in DOMAIN rq.history : rq.history[i].status = 500
    /\ rq.outcome.kind = "thrown"

\* C12: in both clients a 404 response, or an error that is neither a
\* rate-limit status (403, 429) nor a 5xx, ends the request at once with that
\* error; as the first response it leaves the call invoked exactly once.
C12_NoRetryOnClientError ==
    \A i \in DOMAIN rq.history :
        rq.history[i].status \in {404, 400, NoStatus} =>
            /\ i = Len(rq.history)
            /\ rq.pc = "done"
            /\ rq.outcome = [kind |-> "thrown", resp |-> rq.history[i]]
            /\ i = 1 => rq.calls = 1

C12_Witness ==
    /\ rq.client = "crunchbase"
    /\ rq.maxRetries = DefaultMaxRetries
    /\ Len(rq.history) = 1
    /\ rq.history[1].status = 404
    /\ rq.pc = "done"
    /\ rq.calls = 1

\* C13: in each client a 429 and a 403 response, received while retry budget
\* remains, both put the request to sleep for the seconds of the Retry-After
\* header (the client's fixed default when absent) before the retry.
C13_RateLimitHandled ==
    (/\ rq.pc \in {"sleeping", "done"}
     /\ rq.history # <<>>
     /\ Last(rq.history).status \in {403, 429}
     /\ rq.retries > 0)
        => /\ rq.pc = "sleeping"
           /\ Len(rq.slept) > 0
           /\ Last(rq.slept) =
                 IF Last(rq.history).retryAfter = NoHeader
                 THEN DefaultRetryAfter(rq.client)
                 ELSE Last(rq.history).retryAfter

\* ------------------------------------------------------------ concurrent requests
Other(p) == CHOOSE q \in Runs : q # p

Assembles(ls) ==
    ls.fetchOk /\ validateData(ls.fetched).ok /\ parseGraphData(ls.fetched).ok

\* The result of run p is the one its own responses, the configuration and
\* the seed file give: the graph of the dataset its last source step
\* fetched, that step's error when the source has no fallback, or the seed
\* step's result when every enabled source failed with fallback.
AloneResult(p) ==
    LET ls == lastStep[p]
        seed == SeedStep(seedFile)
    IN  IF result[p].from \in Sources
        THEN /\ ls.source = result[p].from
             /\ cfg[ls.source].enabled
             /\ IF result[p].kind = "graph"
                THEN Assembles(ls) /\ result[p].graph = parseGraphData(ls.fetched).graph
                ELSE ~Assembles(ls) /\ ~cfg[ls.source].fallbackToSeed
        ELSE /\ result[p].from = "seed"
             /\ result[p] = IF seed.ok THEN Returned("seed", seed.graph) ELSE Thrown("seed")
             /\ \A src \in Sources :
                   cfg[src].enabled =>
                       /\ cfg[src].fallbackToSeed
                       /\ \E i \in DOMAIN trace[p] : trace[p][i] = Entered(src, "failed")
             /\ ls.source # "none" => ~Assembles(ls)

BothMissed(p, q) ==
    /\ call[p].overlap /\ call[q].overlap
    /\ trace[p] # <<>> /\ trace[p][1] = Entered("cache", "miss")
    /\ trace[q] # <<>> /\ trace[q][1] = Entered("cache", "miss")

\* C14: when two getGraph calls are served at the same time and both miss the
\* cache, each ends with the result its own responses give, and once both
\* have ended the cache is empty or holds one validated dataset with the
\* timestamp and the TTL of one write of one of the two calls.
C14_ConcurrentMisses ==
    \A p \in Runs :
        BothMissed(p, Other(p)) =>
            /\ ~running[p] => AloneResult(p)
            /\ (~running[p] /\ ~running[Other(p)] /\ cache.present) =>
                  /\ validateData(cache.data).ok
                  /\ \E r \in Runs : \E w \in call[r].writes :
                        /\ cache.data = w.data
                        /\ cache.ttl = w.ttl
                        /\ cache.timestamp = w.at

C14_Witness ==
    /\ BothMissed(1, 2)
    /\ ~running[1] /\ ~running[2]
    /\ result[1].kind = "graph" /\ result[2].kind = "graph"
    /\ result[1].from = "github" /\ result[2].from = "crunchbase"
    /\ call[1].writes # {} /\ call[2].writes # {}
    /\ \E w \in call[2].writes : cache.data = w.data /\ cache.ttl = w.ttl
    /\ \A w \in call[1].writes : cache.data # w.data

\* ------------------------------------------------------------ POST /api/graph/refresh
C15_State ==
    \A p \in Runs :
        LET none == ~cfg.github.enabled /\ ~cfg.crunchbase.enabled
        IN  /\ result[p].kind = "clientError" <=> (call[p].op = "refreshGraph" /\ none)
            /\ (call[p].op = "refreshGraph" /\ ~none) =>
                  /\ trace[p] # <<>>
                  /\ trace[p][1] = Entered("cache", "miss")
                  /\ result[p].from # "cache"

C15_Step ==
    \A p \in Runs :
        (/\ call'[p].op = "refreshGraph"
         /\ result'[p].kind = "clientError"
         /\ <<call[p], result[p]>> # <<call'[p], result'[p]>>)
            => cache' = cache

\* C15: refreshGraph answers 400 exactly when neither network source is
\* enabled, and then leaves the cache as it was; with a source enabled it
\* drops the 'graph-data' entry first, so its run starts with a cache miss and
\* never returns the dataset cached before the refresh.
C15_RefreshInvalidates == []C15_State /\ [][C15_Step]_vars

C15_Witness ==
    /\ call[1].op = "refreshGraph"
    /\ call[1].hadEntry
    /\ ~running[1]
    /\ trace[1][1] = Entered("cache", "miss")
    /\ result[1].kind = "graph"

\* ------------------------------------------------------------ DataCache properties
\* The last set of key k is still in force: no invalidate or clear followed
\* it and its age is at most its ttl.
Live(k) ==
    LET g == probe.sets[k]
    IN  g.set /\ ~g.dropped /\ stime - g.at <= g.ttl

C16_State ==
    LET k == probe.last.key
        g == probe.sets[k]
    IN  /\ probe.last.op = "get" =>
              /\ probe.last.ret.hit <=> Live(k)
              /\ Live(k) => probe.last.ret.data = g.data
        /\ probe.last.op = "set" =>
              store[k] = [present |-> TRUE, data |-> g.data, timestamp |-> stime,
                          ttl |-> g.ttl]

C16_Step ==
    probe'.last.op = "invalidate" =>
        /\ ~store'[probe'.last.key].present
        /\ \A k \in StoreKeys \ {probe'.last.key} : store'[k] = store[k]

\* C16: get(key) returns the dataset of the latest set(key) exactly when no
\* invalidate(key) or clear() followed that set and at most ttl has elapsed
\* since it (age = ttl is still a hit), and null otherwise; set replaces the
\* whole entry; invalidate(key) leaves every other key alone.
C16_GetReturnsLatestSet == []C16_State /\ [][C16_Step]_vars

C16_Witness ==
    LET k == probe.last.key
    IN  /\ probe.last.op = "get"
        /\ probe.last.ret.hit
        /\ probe.sets[k].ttl = 2
        /\ stime - probe.sets[k].at = 2
        /\ probe.last.ret.data = GoodSeed
        /\ \E j \in StoreKeys \ {k} : probe.sets[j].set /\ probe.sets[j].dropped

C17_State ==
    probe.last.op = "isExpired" =>
        (probe.last.ret.flag <=> ~CacheGet(store[probe.last.key], stime).hit)

C17_Step ==
    LET k == probe'.last.key
        e == store[k]
    IN  /\ probe'.last.op \in {"isExpired", "getStats", "getTimestamp"} => store' = store
        /\ probe'.last.op = "get" =>
              IF e.present /\ stime - e.timestamp > e.ttl
              THEN store' = [store EXCEPT ![k] = NoEntry]
              ELSE store' = store

\* C17: of the reads only a get of an expired key changes the cache, and it
\* removes that key's entry alone; isExpired, getStats, getTimestamp and a
\* get of an unexpired or absent key change nothing; isExpired(key) is true
\* exactly when get(key) at that instant returns null.
C17_LazyExpiry == []C17_State /\ [][C17_Step]_vars

C17_Witness ==
    LET k == probe.last.key
    IN  /\ probe.last.op = "get"
        /\ ~probe.last.ret.hit
        /\ probe.sets[k].set /\ ~probe.sets[k].dropped
        /\ ~store[k].present
        /\ \E j \in StoreKeys \ {k} : store[j].present

\* ------------------------------------------------------------ GET /api/graph/stats
\* C18: the dataSource reported by the stats route is the source whose
\* dataset the latest getGraph call returned ('seed' when the seed fallback
\* served it).
C18_StatsNamesActiveSource ==
    \A p \in Runs :
        (/\ stats.dataSource # "none"
         /\ call[p].op = "getGraph"
         /\ result[p].kind = "graph"
         /\ result[p].from \in Sources \cup {"seed"})
            => stats.dataSource = result[p].from

\* ------------------------------------------------------------ parseGraphData properties
Assembled == fin.source = "dataset" /\ fout.done /\ fout.validated

EntityIds(d) ==
    [i \in 1..Len(d.startups) |-> d.startups[i].id]
        \o [i \in 1..Len(d.people) |-> d.people[i].id]

Distinct(ids) == \A i, j \in DOMAIN ids : i # j => ids[i] # ids[j]

Resolves(e, d) ==
    /\ \E i \in DOMAIN EntityIds(d) : EntityIds(d)[i] = e.sourceId
    /\ \E i \in DOMAIN EntityIds(d) : EntityIds(d)[i] = e.targetId

Sound(d) == Distinct(EntityIds(d)) /\ \A i \in DOMAIN d.edges : Resolves(d.edges[i], d)

CountsAndOrder(d, g) ==
    /\ Len(g.nodes) = Len(d.startups) + Len(d.people)
    /\ \A i \in DOMAIN d.startups :
          g.nodes[i] = [id |-> d.startups[i].id, type |-> "startup", data |-> d.startups[i]]
    /\ \A i \in DOMAIN d.people :
          g.nodes[Len(d.startups) + i] =
              [id |-> d.people[i].id, type |-> "person", data |-> d.people[i]]
    /\ Len(g.edges) = Len(d.edges)
    /\ \A i \in DOMAIN d.edges :
          /\ g.edges[i].id = <<"edge", i - 1>>
          /\ g.edges[i].source = d.edges[i].sourceId
          /\ g.edges[i].target = d.edges[i].targetId
          /\ g.edges[i].type = d.edges[i].type

\* C19 as stated: every validated dataset is assembled into |startups| +
\* |people| nodes in listed order and |edges| edges edge-0 .. edge-(n-1).
C19_EveryValidatedDataset ==
    Assembled => fout.parsed.ok /\ CountsAndOrder(fin.data, fout.parsed.graph)

\* C19: every validated dataset without a repeated id and without a dangling
\* edge is assembled into |startups| + |people| nodes, the startups in listed
\* order and then the people, and |edges| edges with ids edge-0 .. edge-(n-1)
\* in input order, each keeping its relationship's source, target and type.
C19_NodesAndEdges ==
    (Assembled /\ Sound(fin.data))
        => fout.parsed.ok /\ CountsAndOrder(fin.data, fout.parsed.graph)

C19_Witness ==
    /\ Assembled
    /\ Sound(fin.data)
    /\ Len(fin.data.startups) = 2
    /\ Len(fin.data.people) = 1
    /\ Len(fin.data.edges) = 2
    /\ fout.parsed.graph.edges[2].id = <<"edge", 1>>
    /\ fin.data.edges[1] # fin.data.edges[2]

\* The error of the first violation in processing order: the first id that
\* repeats an earlier one, else the first edge with an unknown endpoint,
\* its source before its target.
FirstViolation(d, err) ==
    LET ids == EntityIds(d)
    IN  IF ~Distinct(ids)
        THEN \E j \in DOMAIN ids :
                /\ \E i \in 1..(j - 1) : ids[i] = ids[j]
                /\ Distinct(SubSeq(ids, 1, j - 1))
                /\ err = <<"Duplicate node ID", ids[j]>>
        ELSE \E k \in DOMAIN d.edges :
                /\ \A i \in 1..(k - 1) : Resolves(d.edges[i], d)
                /\ ~Resolves(d.edges[k], d)
                /\ IF \A i \in DOMAIN ids : ids[i] # d.edges[k].sourceId
                   THEN err = <<"Edge references unknown source node", d.edges[k].sourceId>>
                   ELSE err = <<"Edge references unknown target node", d.edges[k].targetId>>

\* C20: parseGraphData fails exactly when an id is repeated across startups
\* and people or an edge has an unknown endpoint; the error is that of the
\* first violation in processing order and names the offending id; a failure
\* returns no graph.
C20_FailFast ==
    Assembled =>
        /\ fout.parsed.ok <=> Sound(fin.data)
        /\ ~fout.parsed.ok =>
              /\ FirstViolation(fin.data, fout.parsed.error)
              /\ fout.parsed.graph = NoGraph

C20_Witness ==
    /\ Assembled
    /\ Distinct(EntityIds(fin.data))
    /\ Len(fin.data.edges) = 2
    /\ ~Resolves(fin.data.edges[1], fin.data)
    /\ ~Resolves(fin.data.edges[2], fin.data)
    /\ fin.data.edges[1].targetId # fin.data.edges[2].targetId
    /\ fout.parsed.error = <<"Edge references unknown target node", fin.data.edges[1].targetId>>

\* ------------------------------------------------------------ filterGraph
Filtered == fout.done /\ fin.source = "filter"

\* A list criterion that is absent or empty constrains nothing.
ListConstrains(list) == list.given /\ list.value # <<>>

\* A search term that is absent, empty or white space constrains nothing.
TermConstrains(criteria) ==
    criteria.searchTerm.given /\ trim(criteria.searchTerm.value) # <<>>

TagOK(n, criteria) ==
    ListConstrains(criteria.domainTags) =>
        Range(criteria.domainTags.value) \cap Range(n.data.domainTags) # {}

StageOK(n, criteria) ==
    ListConstrains(criteria.stages) => n.data.stage \in Range(criteria.stages.value)

NameOK(n, criteria) ==
    TermConstrains(criteria) =>
        includes(toLowerCase(n.data.name), toLowerCase(trim(criteria.searchTerm.value)))

\* The ids of the startups of the graph that match every criterion.
MatchingStartups(g, criteria) ==
    {n.id : n \in {m \in Range(g.nodes) :
                      /\ m.type = "startup"
                      /\ TagOK(m, criteria)
                      /\ StageOK(m, criteria)
                      /\ NameOK(m, criteria)}}

\* The ids of the people joined by an edge of the graph to one of the ids.
PeopleJoinedTo(g, ids) ==
    {n.id : n \in {m \in Range(g.nodes) :
                      /\ m.type = "person"
                      /\ \E e \in Range(g.edges) :
                             \/ e.source = m.id /\ e.target \in ids
                             \/ e.target = m.id /\ e.source \in ids}}

\* C21: with a non-empty domain-tag or stage criterion and no search term,
\* the nodes of the result are the startups that match the criteria and
\* every person joined by an edge of the original graph to one of them.
C21_StartupsAndTheirPeople ==
    (/\ Filtered
     /\ ListConstrains(fin.criteria.domainTags) \/ ListConstrains(fin.criteria.stages)
     /\ ~TermConstrains(fin.criteria))
    => LET M == MatchingStartups(fin.data, fin.criteria)
       IN  /\ NodeIds(fout.out.nodes) = M \cup PeopleJoinedTo(fin.data, M)
           /\ Len(fout.out.nodes) = Cardinality(NodeIds(fout.out.nodes))

\* The example of the tests: s1 [AI, ML], s2 [Healthcare], s3 [AI], the edges
\* p1-s1, p2-s2 and p1-s3, domainTags ['AI']: s1, s3 and p1 are returned.
C21_Witness ==
    /\ Filtered
    /\ fin.data.nodes = NodePool
    /\ {e.id : e \in Range(fin.data.edges)} = {"e1", "e2", "e3"}
    /\ fin.criteria = [domainTags |-> Given(<<"AI">>), stages |-> Absent,
                       searchTerm |-> Absent]
    /\ NodeIds(fout.out.nodes) = {"s1", "s3", "p1"}

\* The ids of the nodes of the graph whose name contains the search term.
NameMatches(g, criteria) ==
    {n.id : n \in {m \in Range(g.nodes) : NameOK(m, criteria)}}

\* C22: when the search term is the only effective criterion (the tag and
\* stage lists are absent or empty), the nodes of the result are exactly the
\* startups and people whose name contains the trimmed term, whatever the
\* case: no connected person is added.
C22_SearchOnly ==
    (/\ Filtered
     /\ TermConstrains(fin.criteria)
     /\ ~ListConstrains(fin.criteria.domainTags)
     /\ ~ListConstrains(fin.criteria.stages))
    => NodeIds(fout.out.nodes) = NameMatches(fin.data, fin.criteria)

StartupIds(nodes) == {n.id : n \in {m \in Range(nodes) : m.type = "startup"}}

\* C23: a startup is in the result exactly when it matches every category of
\* the criteria that is given and not empty: one of the tags, one of the
\* stages, and the search term.
C23_StartupsMatchEveryCategory ==
    Filtered => StartupIds(fout.out.nodes) = MatchingStartups(fin.data, fin.criteria)

\* The three categories constrain; s1 matches them all and s2 matches the
\* tags alone.
C23_Witness ==
    /\ Filtered
    /\ ListConstrains(fin.criteria.domainTags)
    /\ ListConstrains(fin.criteria.stages)
    /\ TermConstrains(fin.criteria)
    /\ Len(fin.criteria.domainTags.value) > 1
    /\ {"s1", "s2"} \subseteq NodeIds(fin.data.nodes)
    /\ StartupIds(fout.out.nodes) = {"s1"}

\* C24: every edge of the result has both endpoints among the nodes of the
\* result, and every edge of the input whose endpoints are both among the
\* nodes of the result is in the result.
C24_EdgeClosure ==
    Filtered =>
        LET ids == NodeIds(fout.out.nodes)
        IN  /\ \A e \in Range(fout.out.edges) : e.source \in ids /\ e.target \in ids
            /\ \A e \in Range(fin.data.edges) :
                   (e.source \in ids /\ e.target \in ids) => e \in Range(fout.out.edges)

\* An edge is kept, an edge is dropped for one endpoint that was filtered
\* out, and a person was added by the repair.
C24_Witness ==
    /\ Filtered
    /\ fout.out.edges # <<>>
    /\ \E e \in Range(fin.data.edges) :
           /\ e \notin Range(fout.out.edges)
           /\ e.source \in NodeIds(fout.out.nodes)
           /\ e.target \in NodeIds(fin.data.nodes) \ NodeIds(fout.out.nodes)
    /\ \E n \in Range(fout.out.nodes) : n.type = "person"
    /\ ListConstrains(fin.criteria.domainTags)

NothingConstrains(criteria) ==
    /\ ~ListConstrains(criteria.domainTags)
    /\ ~ListConstrains(criteria.stages)
    /\ ~TermConstrains(criteria)

Neighbored == fout.done /\ fin.source = "neighbors"

\* C26: getNeighbors and filterGraph leave their arguments as they were;
\* the node and edge sequences filterGraph returns are new arrays, never an
\* array of its argument, and their elements are elements of the input.
C26_InputsNotMutated ==
    /\ Filtered =>
           /\ fout.out.data = fin.data
           /\ ~fout.out.aliased
           /\ Range(fout.out.nodes) \subseteq Range(fin.data.nodes)
           /\ Range(fout.out.edges) \subseteq Range(fin.data.edges)
    /\ Neighbored => Range(fout.out) \subseteq Range(fin.data.nodes)

\* No filter ran: the nodes returned are the spread copy of the input.
C26_Witness ==
    /\ Filtered
    /\ NothingConstrains(fin.criteria)
    /\ fin.criteria.domainTags.given
    /\ Len(fin.data.nodes) > 1
    /\ fout.out.nodes = fin.data.nodes
    /\ ~fout.out.aliased
    /\ fout.out.data = fin.data

\* ------------------------------------------------------------ getNeighbors
\* C27: getNeighbors is symmetric: for nodes a and b of the node list, b is
\* among the neighbours of a exactly when a is among the neighbours of b.
C27_NeighborsSymmetric ==
    (Neighbored /\ fin.nodeId \in NodeIds(fin.data.nodes))
    => \A b \in NodeIds(fin.data.nodes) :
           b \in NodeIds(fout.out)
           <=> fin.nodeId \in NodeIds(getNeighbors(b, fin.data.nodes, fin.data.edges))

\* No edge leaves s1, and p1 is among its neighbours.
C27_Witness ==
    /\ Neighbored
    /\ fin.nodeId = "s1"
    /\ "p1" \in NodeIds(fout.out)
    /\ \A e \in Range(fin.data.edges) : e.source # "s1"

\* The ids at the other end of the edges that touch the id.
OtherEnds(id, edges) ==
    {e.target : e \in {x \in Range(edges) : x.source = id}}
    \cup {e.source : e \in {x \in Range(edges) : x.target = id}}

Validated == fout.done /\ fin.source = "value"

\* What the schema asks of each property of a record.
ShapeOf(list) ==
    CASE list = "startups" ->
            [id |-> "string", name |-> "string", domainTags |-> "strings",
             stage |-> "stage", foundedYear |-> "year", location |-> "string",
             description |-> "string"]
      [] list = "people" ->
            [id |-> "string", name |-> "string", roles |-> "strings",
             keywords |-> "strings", bio |-> "string"]
      [] list = "edges" ->
            [sourceId |-> "string", targetId |-> "string", type |-> "edge type",
             sinceYear |-> "optional year"]

IsYear(v) == v.t = "number" /\ ~v.half /\ v.v >= 1900 /\ v.v <= 2100

PropertyOK(kind, v) ==
    CASE kind = "string" -> v.t = "string"
      [] kind = "strings" ->
            v.t = "array" /\ \A i \in DOMAIN v.items : v.items[i].t = "string"
      [] kind = "stage" -> v.t = "string" /\ v.v \in CompanyStages
      [] kind = "edge type" -> v.t = "string" /\ v.v \in EdgeTypes
      [] kind = "year" -> IsYear(v)
      [] kind = "optional year" -> v.t = "undefined" \/ IsYear(v)

Lists == {"startups", "people", "edges"}

RecordOK(list, v) ==
    v.t = "object" /\ \A p \in DOMAIN ShapeOf(list) : PropertyOK(ShapeOf(list)[p], v.f[p])

Satisfies(v) ==
    /\ v.t = "object"
    /\ \A list \in Lists :
           /\ v.f[list].t = "array"
           /\ \A i \in DOMAIN v.f[list].items : RecordOK(list, v.f[list].items[i])

\* The violations of the schema by a value: the path of a place, and what is
\* wrong there.  A number given for a year can be wrong in several ways.
Broken(v) ==
    {c \in {"integer", "minimum", "maximum"} :
        \/ c = "integer" /\ v.half
        \/ c = "minimum" /\ v.v < 1900
        \/ c = "maximum" /\ (v.v > 2100 \/ (v.v = 2100 /\ v.half))}

BadProperty(path, kind, v) ==
    IF PropertyOK(kind, v) THEN {}
    ELSE IF kind = "strings" /\ v.t = "array"
         THEN {<<path \o <<IndexName(i - 1)>>, "type">> :
                   i \in {j \in DOMAIN v.items : v.items[j].t # "string"}}
    ELSE IF kind \in {"year", "optional year"} /\ v.t = "number"
         THEN {<<path, c>> : c \in Broken(v)}
         ELSE {<<path, "type">>}

BadRecord(list, i, v) ==
    IF v.t # "object" THEN {<<<<list, IndexName(i - 1)>>, "type">>}
    ELSE UNION {BadProperty(<<list, IndexName(i - 1), p>>, ShapeOf(list)[p], v.f[p]) :
                   p \in DOMAIN ShapeOf(list)}

BadList(list, v) ==
    IF v.t # "array" THEN {<<<<list>>, "type">>}
    ELSE UNION {BadRecord(list, i, v.items[i]) : i \in DOMAIN v.items}

Violations(v) ==
    IF v.t # "object" THEN {<<<<>>, "type">>}
    ELSE UNION {BadList(list, v.f[list]) : list \in Lists}

BadPlaces(v) == {x[1] : x \in Violations(v)}

\* The number of '<path>: <reason>' pairs of a message.
Pairs(message) == Cardinality({i \in DOMAIN message : message[i] = ": "})

\* The text of a path followed by ': ', after the head of the message or
\* after the ', ' that ends the pair before it.
ListsPlace(message, path) ==
    LET text == JoinWith([i \in 1..Len(path) |-> <<path[i]>>], ".") \o <<": ">>
    IN  \/ includes(message, <<"Data validation failed: ">> \o text)
        \/ includes(message, <<", ">> \o text)

\* Every property has the primitive type the schema names; the enumerations
\* and the ranges of the years may still be violated.
WellTyped(v) ==
    /\ v.t = "object"
    /\ \A list \in Lists :
           /\ v.f[list].t = "array"
           /\ \A i \in DOMAIN v.f[list].items :
                  LET r == v.f[list].items[i]
                  IN  /\ r.t = "object"
                      /\ \A p \in DOMAIN ShapeOf(list) :
                             LET kind == ShapeOf(list)[p]
                             IN  CASE kind \in {"string", "stage", "edge type"} ->
                                         r.f[p].t = "string"
                                   [] kind = "strings" -> PropertyOK(kind, r.f[p])
                                   [] kind = "year" ->
                                         r.f[p].t = "number" /\ ~r.f[p].half
                                   [] kind = "optional year" ->
                                         \/ r.f[p].t = "undefined"
                                         \/ r.f[p].t = "number" /\ ~r.f[p].half

\* C29: validateData accepts a value exactly when every required property of
\* every startup, person and edge is there with its primitive type, every
\* stage and edge type is of its enumeration, and every foundedYear and
\* every sinceYear that is there is an integer in [1900, 2100]; otherwise
\* it throws one error whose message starts 'Data validation failed' and
\* lists every violation, not the first alone, as '<path>: <reason>' pairs
\* joined by ', '.  On values whose properties all have their primitive
\* type, the verdict is the one of validateData on the typed dataset.
C29_AcceptsExactlyTheSchema ==
    Validated =>
        /\ fout.out.ok <=> Satisfies(fin.data)
        /\ ~fout.out.ok =>
               /\ Head(fout.out.message) = "Data validation failed: "
               /\ \A path \in BadPlaces(fin.data) : ListsPlace(fout.out.message, path)
               /\ Pairs(fout.out.message) = Cardinality(Violations(fin.data))
        /\ WellTyped(fin.data) => validateData(SeedDataOf(fin.data)).ok = fout.out.ok

\* Two places violate the schema, one of them with a year that is neither an
\* integer nor in the range; both are listed.
C29_Witness ==
    /\ Validated
    /\ ~fout.out.ok
    /\ Cardinality(BadPlaces(fin.data)) = 2
    /\ <<"edges", "1", "sinceYear">> \in BadPlaces(fin.data)
    /\ fin.data.f.edges.items[2].f.sinceYear = JHalf(1899)
    /\ <<"startups", "0", "name">> \in BadPlaces(fin.data)

Serialized == fout.done /\ fin.source = "file"

MappedTwice == fout.done /\ fin.source = "records" /\ fout.runs = 2

\* C31: two runs of the mappers on the same source records return the same
\* startups, people and edges, whatever the wall-clock time of each run:
\* the inferred stage and the inferred edge type depend on the records only.
C31_MappingDeterministic ==
    MappedTwice => fout.again = fout.first

Normalized == fout.done /\ fin.source = "stage"

\* C32: funding-stage normalisation lower-cases its input, replaces the
\* underscores with hyphens and maps the result into the enumeration: the
\* result is one of the nine stages for every input, and 'seed' for an
\* absent or unknown one.  Both functions named normalizeFundingStage are
\* held to it.
C32_StageNormalized ==
    Normalized =>
        \A stage \in {fout.client, fout.exported} :
            /\ stage \in CompanyStages
            /\ stage = IF fin.raw # "" /\ LowerHyphen(fin.raw) \in CompanyStages
                       THEN LowerHyphen(fin.raw) ELSE "seed"

Mapped == fout.done /\ fin.source = "records"

\* C33: a free-text field of a mapped record (the location and description
\* of a startup, the bio of a person) is the empty string whenever the
\* source record omits it, for the GitHub and for the Crunchbase mapper.
C33_FreeTextDefaultsEmpty ==
    Mapped =>
        /\ fin.org.location = <<>> => fout.first.startup.location = <<>>
        /\ fin.org.description = <<>> => fout.first.startup.description = <<>>
        /\ fin.user.bio = <<>> => fout.first.member.bio = <<>>
        /\ fin.organization.location_identifiers = <<>>
               => fout.first.organization.location = <<>>
        /\ fin.organization.short_description = <<>>
               => fout.first.organization.description = <<>>
        /\ fin.person.bio = <<>> => fout.first.person.bio = <<>>

Inferred == fout.done /\ fin.source = "proxies"

\* The order of the stages that are inferred.
StageRank(stage) ==
    CASE stage = "seed" -> 0
      [] stage = "series-a" -> 1
      [] stage = "series-b" -> 2
      [] stage = "growth" -> 3

\* q is p with one proxy raised and the two others as they are.
Raises(p, q) ==
    \/ q.repoCount > p.repoCount /\ q.totalStars = p.totalStars /\ q.orgAge = p.orgAge
    \/ q.repoCount = p.repoCount /\ q.totalStars > p.totalStars /\ q.orgAge = p.orgAge
    \/ q.repoCount = p.repoCount /\ q.totalStars = p.totalStars /\ q.orgAge > p.orgAge

\* The buckets of the inference, in the order they are tried.
InBucket(k, p) ==
    CASE k = 1 -> p.repoCount < 10 /\ p.totalStars < 100 /\ p.orgAge < 2
      [] k = 2 -> p.repoCount < 50 /\ p.totalStars < 1000 /\ p.orgAge < 5
      [] k = 3 -> p.repoCount >= 50 /\ p.totalStars >= 1000 /\ p.orgAge >= 5
      [] k = 4 -> p.totalStars >= 10000

BucketStage(k) == <<"seed", "series-a", "series-b", "growth">>[k]

\* C36: the inferred stage escalates with the proxies: raising one of
\* repository count, total stars and age while the two others stay fixed
\* never lowers the stage in the order seed < series-a < series-b < growth,
\* and when several buckets match, the earliest one is returned.
C36_StageEscalates ==
    Inferred =>
        /\ \A q \in Proxies :
               Raises(fin, q) =>
                   StageRank(inferFundingStage(ProxyOrg(q), ProxyRepos(q), StartDay))
                       >= StageRank(fout.stage)
        /\ \A k \in 1..4 :
               (InBucket(k, fin) /\ \A j \in 1..(k - 1) : ~InBucket(j, fin))
                   => fout.stage = BucketStage(k)

\* ------------------------------------------------------------ retryRequest, waits and sleeps
\* C34: every invocation of the underlying call, the first attempt and every
\* retry alike, is preceded by its own completed rateLimiter.wait(): the
\* steps of one request are wait, call, (sleep, wait, call)*, and no call
\* is issued without a wait immediately before it.
C34_WaitBeforeEveryCall ==
    \A i \in DOMAIN rq.log :
        /\ rq.log[i] = "wait" <=> i % 3 = 1
        /\ rq.log[i] = "call" <=> i % 3 = 2
        /\ rq.log[i] = "sleep" <=> i % 3 = 0
        /\ rq.log[i] = "call" => i > 1 /\ rq.log[i - 1] = "wait"

\* The first attempt and two retries, one after a rate-limit response and
\* one after a server error, each with its wait.
C34_Witness ==
    /\ rq.pc = "done"
    /\ rq.calls = 3
    /\ rq.log = <<"wait", "call", "sleep", "wait", "call", "sleep", "wait", "call">>
    /\ rq.history[1].status = RateLimitStatus(rq.client)
    /\ rq.history[2].status = 500

\* The budget left when the i-th response is seen, every retry before it
\* having consumed one unit.
Remaining(i) == rq.maxRetries - (i - 1)

\* C35: on a 5xx response with retry budget left the client sleeps
\* 2^(maxRetries - remaining) * 1000 ms, remaining being the budget left when
\* the failure is seen, and every retry consumes one unit: with maxRetries 3
\* and 5xx responses only the sleeps are 1000, 2000 and 4000 ms.
C35_ExponentialBackoff ==
    /\ rq.retries = Remaining(IF rq.pc = "sleeping" THEN Len(rq.slept)
                              ELSE Len(rq.slept) + 1)
    /\ \A i \in DOMAIN rq.slept :
           rq.history[i].status >= 500 =>
               rq.slept[i] * 1000 = 2 ^ (rq.maxRetries - Remaining(i)) * 1000
    /\ (/\ rq.pc = "done"
        /\ rq.maxRetries = DefaultMaxRetries
        /\ \A i \in DOMAIN rq.history : rq.history[i].status = 500)
       => [i \in DOMAIN rq.slept |-> rq.slept[i] * 1000] = <<1000, 2000, 4000>>

C35_Witness ==
    /\ rq.pc = "done"
    /\ rq.maxRetries = DefaultMaxRetries
    /\ \A i \in DOMAIN rq.history : rq.history[i].status = 500
    /\ rq.slept = <<1, 2, 4>>

\* C37: once refreshGraph has invalidated 'graph-data', a run whose awaited
\* fetch started before that invalidation never writes the cache, so the
\* cache never again holds a dataset fetched before the invalidation.
C37_NoWriteFromBeforeRefresh ==
    [][\A p \in Runs : call[p].preRefresh => ~(lastStep'[p] # lastStep[p] /\ lastStep'[p].wrote)]_vars

\* C38: a run that ends in the seed fallback has not written the cache: no
\* dataCache.set ran between its start and its return.
EndedInSeed(p) == call[p].op # "none" /\ ~running[p] /\ result[p].from = "seed"

C38_SeedRunLeavesCache == \A p \in Runs : EndedInSeed(p) => call[p].writes = {}

\* C39: the last response of GET /api/graph/stats is consistent with one
\* cache state: isCached holds exactly when 'graph-data' is among the
\* reported keys and size counts it, and isCached and isExpired are never
\* both true.
Answered == stats.dataSource # "none"

C39_StatsConsistent ==
    Answered =>
        /\ stats.isCached <=> "graph-data" \in stats.keys
        /\ stats.size = Cardinality(stats.keys)
        /\ ~(stats.isCached /\ stats.isExpired)

\* C40: filterGraph is idempotent on a graph whose edges all join its nodes:
\* filtering the filtered graph again under the same criteria returns the
\* same node sequence and the same edge sequence.
FilteredTwice == fout.done /\ "again" \in DOMAIN fout

C40_FilterIdempotent ==
    FilteredTwice =>
        /\ fout.again.nodes = fout.out.nodes
        /\ fout.again.edges = fout.out.edges

\* A tag filter dropped a startup and the repair brought a person back with
\* its edge; the second pass filters and repairs again.
C40_Witness ==
    /\ FilteredTwice
    /\ ListGiven(fin.criteria.domainTags)
    /\ Len(fout.out.nodes) < Len(fin.data.nodes)
    /\ \E i \in DOMAIN fout.out.nodes : fout.out.nodes[i].type = "person"
    /\ fout.out.edges # <<>>
    /\ Len(fout.out.edges) < Len(fin.data.edges)
    /\ fout.again.nodes = fout.out.nodes

====
